---- MODULE Spec2Model ----
(***************************************************************************)
(* LowCard engine of the game service: the ledger, the room locks, the     *)
(* game snapshot kept in the keyed store and the engine's entry points     *)
(* (src/services/lowcardService.js), restart recovery (src/unnamed/        *)
(* part_001) and the per-room serializer (src/pubsub/subscriber.js).       *)
(*                                                                         *)
(* One room is modelled.  Every entry point is a process that runs from    *)
(* one keyed-store or database call to the next: a step of the model is    *)
(* the code between two awaits.  Specification Spec runs one process at a  *)
(* time (every handler runs to completion before the next one starts);     *)
(* the Race specifications run several processes (replicas, the poller     *)
(* and player commands) whose steps interleave.                            *)
(***************************************************************************)
EXTENDS Integers, Sequences, FiniteSets, TLC

\* ---------------------------------------------------------------- bounds
NumUsers == 3
NumProcs == 2
MaxGames == 2
MaxPlayed == 1
MaxCalls == 3
EntryFee == 55
MaxRound == 3
MaxCardValue == 3
NumSuits == 1
InitCredits == 110
TaggedInit == 5
MaxRuns == 2
MaxBets == 2            \* game_bet rows of one user in a run with failing starts
NumRooms == 2          \* rooms whose commands arrive on game:command
MaxCommands == 4       \* commands published on game:command

\* ------------------------------------------------------ program constants
JOIN_TIMEOUT == 30000
COUNTDOWN_DELAY == 3000
MIN_ENTRY == 1
MAX_ENTRY == 999999999
MIN_ENTRY_BIG_GAME == 50
STALE_GAME_TIMEOUT == 120000
HOUSE_FEE_PERCENT == 10
STUCK_GAME_AGE == 40000
JOIN_LOCK_RETRIES == 5
DRAW_LOCK_RETRIES == 3

Users == 1..NumUsers
Procs == 1..NumProcs
SeqProcs == {1}

\* amounts a caller passes to startGame: parseInt(amount) of the command
Amounts == {0 - 1, 0, EntryFee, MAX_ENTRY + 1}

AllSuits == <<"h", "d", "c", "s">>
CARD_SUITS == {AllSuits[i] : i \in 1..NumSuits}
CARD_VALUES == 2..MaxCardValue
Cards == [value : CARD_VALUES, suit : CARD_SUITS]
NoCard == [value |-> 0, suit |-> "-"]

NoGame == [status |-> "absent"]
NoCache == 0 - 1
LockKeys == {"lock", "joinlock", "drawlock"}

Min(a, b) == IF a < b THEN a ELSE b

\* Date.now().  Every stored timestamp is kept relative to the current
\* instant: when time passes the timestamps move back (Elapse), the clock
\* reads 0.  Only differences of times are ever compared.
now == 0

\* a timestamp field that is not set
NoTime == 0 - MAX_ENTRY

VARIABLES
  credits,        \* users.credits, the durable balance
  tagged,         \* merchant-tagged balance of each user (merchantTagService)
  cache,          \* credits:{userId}, NoCache when the key is absent
  merchantTag,    \* users with an active row in merchant_tags
  merchantIncome, \* income paid to merchants by addMerchantIncome
  bigGame,        \* the room's name contains "big game"
  refundLog,      \* credit_logs: rows of each user written by restart recovery
  betLog,         \* credit_logs: game_bet rows of each user written by deductCredits
  game,           \* lowcard:game:{R}, NoGame when the key is absent
  deck,           \* lowcard:deck:{R}: [exists, cards]
  timer,          \* room:{R}:lowcard:timer exists
  bot,            \* lowcard:bot:{R} exists
  lock,           \* the three lock keys: 0 when absent, else the holder
  proc,           \* the processes: position, arguments and locals of each
  stake,          \* history: entry of each user deducted and not yet compensated
  base,           \* history: credits and tagged balance before the user's last bet
  started,        \* history: number of games created
  calls,          \* history: number of operations completed (SpecRace)
  runs,           \* history: runs of restart recovery completed
  roomQueues,     \* subscriber: the queue object of each room, NoQueue when absent
  awaited,       \* subscriber: the commands of each room whose handler is awaited
  arrived,        \* history: the commands of each room in arrival order
  handled,        \* history: the commands of each room in the order handed over
  dispatched      \* history: the last command routed and the handlers it reached

dbVars == <<credits, tagged, merchantTag, merchantIncome, bigGame, refundLog, betLog>>
storeVars == <<cache, game, deck, timer, bot, lock>>
histVars == <<stake, base, started, calls, runs>>
routerVars == <<roomQueues, awaited, arrived, handled, dispatched>>
vars == <<credits, tagged, cache, merchantTag, merchantIncome, bigGame, refundLog, betLog,
          game, deck, timer, bot, lock, proc, stake, base, started, calls, runs,
          roomQueues, awaited, arrived, handled, dispatched>>

\* ------------------------------------------------------------- snapshot
Player(u) ==
  [userId |-> u, isEliminated |-> FALSE, hasDrawn |-> FALSE,
   currentCard |-> NoCard, inTieBreaker |-> FALSE]

PlayerIds(g) == {g.players[i].userId : i \in 1..Len(g.players)}

\* the snapshot startGame builds
NewGame(u, entryAmount, t) ==
  [status |-> "waiting", entryAmount |-> entryAmount, pot |-> entryAmount,
   currentRound |-> 0, players |-> <<Player(u)>>, startedBy |-> u,
   createdAt |-> t, joinDeadline |-> t + JOIN_TIMEOUT, countdownEndsAt |-> NoTime,
   isTieBreaker |-> FALSE, wasTieBreaker |-> FALSE]

NoDeck == [exists |-> FALSE, cards |-> {}]

\* ------------------------------------------------------------ processes
NoRet == [op |-> "", user |-> 0, res |-> "", g |-> NoGame]

Idle ==
  [pc |-> "idle", op |-> "", user |-> 0, amount |-> 0, g |-> NoGame,
   tries |-> 0, ded |-> 0, tok |-> 0, card |-> NoCard, ret |-> NoRet]

Ret(op, u, res) == [op |-> op, user |-> u, res |-> res, g |-> NoGame]

\* a result that keeps the snapshot the operation acted on
RetG(op, u, res, g) == [op |-> op, user |-> u, res |-> res, g |-> g]

IsIdle(p) == proc[p].pc = "idle"

\* proc with process p moved to pc, locals updated by the record upd
Goto(p, pcn, upd) ==
  [proc EXCEPT ![p] = [f \in DOMAIN proc[p] |->
      IF f = "pc" THEN pcn
      ELSE IF f \in DOMAIN upd THEN upd[f] ELSE proc[p][f]]]

\* the operation returns r: the process rests at "done" with its result
Return(p, r) == [proc EXCEPT ![p] = [Idle EXCEPT !.pc = "done", !.ret = r]]

IsDone(p) == proc[p].pc = "done"

\* ---------------------------------------------------------------- ledger
\* The ledger's state as one value, so that a loop of refunds can be folded.
CurL == [credits |-> credits, cache |-> cache, tagged |-> tagged, stake |-> stake]

SetL(L) ==
  /\ credits' = L.credits
  /\ cache' = L.cache
  /\ tagged' = L.tagged
  /\ stake' = L.stake

\* getUserCredits: the cached balance, else the durable one (which it caches)
GetUserCredits(L, u) == IF L.cache[u] # NoCache THEN L.cache[u] ELSE L.credits[u]

\* merchantTagService.consumeForGame: {success, usedTaggedCredits, remainingAmount}
ConsumeForGame(L, u, amount, ok) ==
  LET used == IF ok THEN Min(L.tagged[u], amount) ELSE 0
  IN [success |-> ok, usedTaggedCredits |-> used, remainingAmount |-> amount - used]

\* the outcomes consumeForGame may have for user u
ConsumeChoices(u) == IF tagged[u] > 0 THEN BOOLEAN ELSE {FALSE}

\* an UPDATE of users.credits without the test of the balance
HasBalanceAlways(c, remaining) == TRUE

\* UPDATE users SET credits = credits - $1 WHERE id = $2 AND credits >= $1:
\* the row is updated only when the durable balance c covers the amount
HasBalance(c, remaining) == c >= remaining

\* deductCredits(userId, amount): {success, L}; ok is consumeForGame's outcome
DeductCredits(L, u, amount, ok) ==
  LET useTag == L.tagged[u] > 0 /\ ok
      c == ConsumeForGame(L, u, amount, useTag)
      remaining == IF useTag THEN c.remainingAmount ELSE amount
      current == GetUserCredits(L, u)
      L1 == [L EXCEPT !.tagged[u] = @ - c.usedTaggedCredits, !.cache[u] = current]
  IN IF remaining <= 0 THEN [success |-> TRUE, L |-> [L1 EXCEPT !.stake[u] = @ + amount]]
     ELSE IF current < remaining THEN [success |-> FALSE, L |-> L1]
     ELSE IF ~HasBalance(L.credits[u], remaining) THEN [success |-> FALSE, L |-> L1]
     ELSE [success |-> TRUE,
           L |-> [L1 EXCEPT !.credits[u] = @ - remaining,
                            !.cache[u] = L.credits[u] - remaining,
                            !.stake[u] = @ + amount]]

\* addCredits(userId, amount, username, reason) with a reason that says Refund
RefundCredits(L, u, amount) ==
  [L EXCEPT !.credits[u] = @ + amount,
            !.cache[u] = L.credits[u] + amount,
            !.stake[u] = @ - amount]

\* addCredits(userId, amount, username, reason) for a win
WinCredits(L, u, amount) ==
  [L EXCEPT !.credits[u] = @ + amount, !.cache[u] = L.credits[u] + amount]

\* for (const player of players) await addCredits(player.userId, amount, ...)
RECURSIVE RefundPlayers(_, _, _, _)
RefundPlayers(L, players, i, amount) ==
  IF i > Len(players) THEN L
  ELSE RefundPlayers(RefundCredits(L, players[i].userId, amount), players, i + 1, amount)

\* the balances of user u before a bet, kept for the claims about refunds
Balances(u) == [credits |-> credits[u], tagged |-> tagged[u]]

\* ------------------------------------------------------- command router
Rooms == 1..NumRooms

\* roomQueues.get(roomId) of a room without a queue object
NoQueue == [present |-> FALSE, items |-> <<>>, processing |-> FALSE]

\* no command routed yet
NoDispatch == [path |-> "none", message |-> "", active |-> "none", calls |-> <<>>]

\* --------------------------------------------------------------- actions
Init ==
  /\ credits = [u \in Users |-> InitCredits]
  /\ merchantTag \in {{}, {1}}
  /\ tagged = [u \in Users |-> IF u \in merchantTag THEN TaggedInit ELSE 0]
  /\ cache = [u \in Users |-> NoCache]
  /\ merchantIncome = 0
  /\ bigGame = FALSE
  /\ refundLog = [u \in Users |-> 0]
  /\ betLog = [u \in Users |-> 0]
  /\ game = NoGame
  /\ deck = NoDeck
  /\ timer = FALSE
  /\ bot = FALSE
  /\ lock = [k \in LockKeys |-> 0]
  /\ proc = [p \in Procs |-> Idle]
  /\ stake = [u \in Users |-> 0]
  /\ base = [u \in Users |-> [credits |-> credits[u], tagged |-> tagged[u]]]
  /\ started = 0
  /\ calls = 0
  /\ runs = 0
  /\ roomQueues = [r \in Rooms |-> NoQueue]
  /\ awaited = [r \in Rooms |-> {}]
  /\ arrived = [r \in Rooms |-> <<>>]
  /\ handled = [r \in Rooms |-> <<>>]
  /\ dispatched = NoDispatch

\* checkAndCleanupStaleGame's test of the snapshot it read
IsStale(g, t) ==
  /\ g # NoGame
  /\ g.status = "waiting"
  /\ g.joinDeadline # NoTime
  /\ t > g.joinDeadline + STALE_GAME_TIMEOUT

\* the test for a stuck game without the test of the timer
IsStuckIgnoringTimer(g, tm, t) ==
  /\ g.status = "waiting"
  /\ t - g.createdAt > STUCK_GAME_AGE

\* the test for a stuck game without the test of its age
IsStuckIgnoringAge(g, tm, t) ==
  /\ ~tm
  /\ g.status = "waiting"

\* startGame's test for a stuck game: no timer and waiting for more than 40 s
IsStuck(g, tm, t) ==
  /\ ~tm
  /\ g.status = "waiting"
  /\ t - g.createdAt > STUCK_GAME_AGE

MinEntry == IF bigGame THEN MIN_ENTRY_BIG_GAME ELSE MIN_ENTRY

\* parseInt(amount) || minEntry
RequestedAmount(a) == IF a = 0 THEN MinEntry ELSE a

\* ---- startGame
StartGame(p, u, a) ==
  /\ IsIdle(p)
  /\ IF lock["lock"] = 0
       THEN /\ lock' = [lock EXCEPT !["lock"] = p]
            /\ proc' = Goto(p, "sg_stale", [op |-> "startGame", user |-> u, amount |-> a])
       ELSE /\ proc' = Return(p, Ret("startGame", u, "busy"))
            /\ UNCHANGED lock
  /\ UNCHANGED <<dbVars, routerVars, cache, game, deck, timer, bot, histVars>>

SgStale(p) ==
  /\ proc[p].pc = "sg_stale"
  /\ IF IsStale(game, now)
       THEN proc' = Goto(p, "sg_stale2", [g |-> game])
       ELSE proc' = Goto(p, "sg_read", <<>>)
  /\ UNCHANGED <<dbVars, routerVars, storeVars, histVars>>

SgStaleApply(p) ==
  /\ proc[p].pc = "sg_stale2"
  /\ SetL(RefundPlayers(CurL, proc[p].g.players, 1, proc[p].g.entryAmount))
  /\ game' = NoGame
  /\ timer' = FALSE
  /\ deck' = NoDeck
  /\ proc' = Goto(p, "sg_read", [g |-> NoGame])
  /\ UNCHANGED <<merchantTag, merchantIncome, bigGame, routerVars, refundLog, betLog, bot, lock, base, started, calls, runs>>

SgRead(p) ==
  /\ proc[p].pc = "sg_read"
  /\ IF game = NoGame
       THEN proc' = Goto(p, "sg_deduct", <<>>) /\ UNCHANGED game
       ELSE IF game.status \in {"waiting", "playing"}
         THEN /\ UNCHANGED game
              /\ IF IsStuck(game, timer, now)
                   THEN proc' = Goto(p, "sg_stuck", [g |-> game])
                   ELSE proc' = Goto(p, "sg_unlock",
                                     [ret |-> Ret("startGame", proc[p].user, "in_progress")])
         ELSE proc' = Goto(p, "sg_deduct", <<>>) /\ game' = NoGame
  /\ UNCHANGED <<dbVars, routerVars, cache, deck, timer, bot, lock, histVars>>

\* the refunds of a stuck game's players
SgStuck(p) ==
  /\ proc[p].pc = "sg_stuck"
  /\ SetL(RefundPlayers(CurL, proc[p].g.players, 1, proc[p].g.entryAmount))
  /\ proc' = Goto(p, "sg_stuck_del", <<>>)
  /\ UNCHANGED <<merchantTag, merchantIncome, bigGame, routerVars, refundLog, betLog, game, deck, timer, bot, lock,
                 base, started, calls, runs>>

\* await redis.del(gameKey); await clearDeck(roomId)
SgStuckDelete(p) ==
  /\ proc[p].pc = "sg_stuck_del"
  /\ game' = NoGame
  /\ deck' = NoDeck
  /\ proc' = Goto(p, "sg_deduct", [g |-> NoGame])
  /\ UNCHANGED <<dbVars, routerVars, cache, timer, bot, lock, histVars>>

SgDeduct(p) ==
  /\ proc[p].pc = "sg_deduct"
  /\ LET u == proc[p].user
         requested == RequestedAmount(proc[p].amount)
     IN IF requested < MinEntry
          THEN /\ proc' = Goto(p, "sg_unlock", [ret |-> Ret("startGame", u, "minimal")])
               /\ UNCHANGED <<credits, tagged, cache, stake, base, betLog>>
          ELSE IF ~bigGame /\ requested > MAX_ENTRY
            THEN /\ proc' = Goto(p, "sg_unlock", [ret |-> Ret("startGame", u, "maximal")])
                 /\ UNCHANGED <<credits, tagged, cache, stake, base, betLog>>
            ELSE \E ok \in ConsumeChoices(u) :
                   LET d == DeductCredits(CurL, u, requested, ok)
                   IN /\ SetL(d.L)
                      /\ betLog' = IF d.success THEN [betLog EXCEPT ![u] = @ + 1] ELSE betLog
                      /\ IF d.success
                           THEN /\ base' = [base EXCEPT ![u] = Balances(u)]
                                /\ proc' = Goto(p, "sg_write", [ded |-> requested])
                           ELSE /\ UNCHANGED base
                                /\ proc' = Goto(p, "sg_unlock",
                                                [ret |-> Ret("startGame", u, "no_credit")])
  /\ UNCHANGED <<merchantTag, merchantIncome, bigGame, routerVars, refundLog, game, deck, timer, bot, lock, started, calls, runs>>

SgWrite(p) ==
  /\ proc[p].pc = "sg_write"
  /\ game' = NewGame(proc[p].user, proc[p].ded, now)
  /\ started' = started + 1
  /\ proc' = Goto(p, "sg_verify", <<>>)
  /\ UNCHANGED <<dbVars, routerVars, cache, deck, timer, bot, lock, stake, base, calls, runs>>

SgVerify(p) ==
  /\ proc[p].pc = "sg_verify"
  /\ IF game = NoGame
       THEN /\ SetL(RefundCredits(CurL, proc[p].user, proc[p].ded))
            /\ proc' = Goto(p, "sg_unlock",
                            [ded |-> 0, ret |-> Ret("startGame", proc[p].user, "verify_failed")])
       ELSE /\ UNCHANGED <<credits, tagged, cache, stake>>
            /\ proc' = Goto(p, "sg_unlock", [ret |-> Ret("startGame", proc[p].user, "ok")])
  /\ UNCHANGED <<merchantTag, merchantIncome, bigGame, routerVars, refundLog, betLog, game, deck, timer, bot, lock,
                 base, started, calls, runs>>

\* redis.set(gameKey, ...) answers nothing: the starter is refunded,
\* deductedAmount = 0, "Failed to create game"
SgWriteFails(p) ==
  /\ proc[p].pc = "sg_write"
  /\ SetL(RefundCredits(CurL, proc[p].user, proc[p].ded))
  /\ proc' = Goto(p, "sg_unlock",
                  [ded |-> 0, ret |-> Ret("startGame", proc[p].user, "write_failed")])
  /\ UNCHANGED <<merchantTag, merchantIncome, bigGame, routerVars, refundLog, betLog, game, deck, timer, bot, lock,
                 base, started, calls, runs>>

\* an await after the deduction throws (the game_history insert, the
\* snapshot write, the read-back): catch refunds deductedAmount
SgThrows(p) ==
  /\ proc[p].pc \in {"sg_write", "sg_verify"}
  /\ SetL(RefundCredits(CurL, proc[p].user, proc[p].ded))
  /\ proc' = Goto(p, "sg_unlock", [ret |-> Ret("startGame", proc[p].user, "exception")])
  /\ UNCHANGED <<merchantTag, merchantIncome, bigGame, routerVars, refundLog, betLog, game, deck, timer, bot, lock,
                 base, started, calls, runs>>

\* finally { await redis.del(lockKey) }
\* a return of startGame that leaves the lock key in place
SgReturnsKeepingLock(p) ==
  /\ proc[p].pc = "sg_unlock"
  /\ proc' = Return(p, proc[p].ret)
  /\ UNCHANGED <<dbVars, routerVars, storeVars, histVars>>

\* finally { await redis.del(lockKey) }
SgUnlock(p) ==
  /\ proc[p].pc = "sg_unlock"
  /\ lock' = [lock EXCEPT !["lock"] = 0]
  /\ proc' = Return(p, proc[p].ret)
  /\ UNCHANGED <<dbVars, routerVars, cache, game, deck, timer, bot, histVars>>


\* ---- locks
\* acquireLock: SET key token NX EX ttl; the token is the acquiring process
\* (a fresh random token per call: no two live holders share one)
CanAcquire(key) == lock[key] = 0

\* a release that deletes the key whatever it holds
ReleaseLockAnyToken(lk, key, tok) == [lk EXCEPT ![key] = 0]

\* releaseLock: delete the key only if it still holds the caller's token
ReleaseLock(lk, key, tok) == IF tok # 0 /\ lk[key] = tok THEN [lk EXCEPT ![key] = 0] ELSE lk

\* a cleanup that deletes the game key and the locks only
CleanupGameKeyOnly ==
  /\ game' = NoGame
  /\ lock' = [k \in LockKeys |-> 0]
  /\ UNCHANGED <<deck, timer>>

\* a cleanup that deletes the game, deck and timer keys and leaves the locks
CleanupKeepingLocks ==
  /\ game' = NoGame
  /\ deck' = NoDeck
  /\ timer' = FALSE
  /\ UNCHANGED lock

\* cleanupRedisKeys deletes the game, deck and timer keys and the three lock keys
CleanupRedisKeys ==
  /\ game' = NoGame
  /\ deck' = NoDeck
  /\ timer' = FALSE
  /\ lock' = [k \in LockKeys |-> 0]

\* ---- joinGame
\* the rejections without the test of the join deadline
JoinRejectionNoDeadline(g, u, t) ==
  IF g = NoGame THEN "silent"
  ELSE IF g.status # "waiting" THEN "not_waiting"
  ELSE IF u \in PlayerIds(g) THEN "already_joined"
  ELSE ""

\* the rejections without the test of players
JoinRejectionNoMembership(g, u, t) ==
  IF g = NoGame THEN "silent"
  ELSE IF g.status # "waiting" THEN "not_waiting"
  ELSE IF t > g.joinDeadline THEN "deadline"
  ELSE ""

\* the rejection joinGame answers for the snapshot it read, "" when it accepts
JoinRejection(g, u, t) ==
  IF g = NoGame THEN "silent"
  ELSE IF g.status # "waiting" THEN "not_waiting"
  ELSE IF t > g.joinDeadline THEN "deadline"
  ELSE IF u \in PlayerIds(g) THEN "already_joined"
  ELSE ""

\* the player pushed, the pot left as it was
JoinedSnapshotSamePot(g, u) == [g EXCEPT !.players = Append(@, Player(u))]

\* game.players.push(player); game.pot += game.entryAmount
JoinedSnapshot(g, u) ==
  [g EXCEPT !.players = Append(@, Player(u)), !.pot = @ + g.entryAmount]

\* one attempt of acquireLockWithRetry(lowcard:joinlock, 15, 5, 100)
JgAcquire(p, u) ==
  IF CanAcquire("joinlock")
    THEN /\ lock' = [lock EXCEPT !["joinlock"] = p]
         /\ proc' = Goto(p, "jg_read", [op |-> "joinGame", user |-> u, tok |-> p])
    ELSE /\ UNCHANGED lock
         /\ IF proc[p].tries + 1 >= JOIN_LOCK_RETRIES
              THEN proc' = Return(p, Ret("joinGame", u, "busy"))
              ELSE proc' = Goto(p, "jg_lock",
                                [op |-> "joinGame", user |-> u, tries |-> proc[p].tries + 1])

JoinGame(p, u) ==
  /\ IsIdle(p)
  /\ JgAcquire(p, u)
  /\ UNCHANGED <<dbVars, routerVars, cache, game, deck, timer, bot, histVars>>

JgLock(p) ==
  /\ proc[p].pc = "jg_lock"
  /\ JgAcquire(p, proc[p].user)
  /\ UNCHANGED <<dbVars, routerVars, cache, game, deck, timer, bot, histVars>>

JgRead(p) ==
  /\ proc[p].pc = "jg_read"
  /\ LET rej == JoinRejection(game, proc[p].user, now)
     IN IF rej # ""
          THEN proc' = Goto(p, "jg_unlock", [ret |-> Ret("joinGame", proc[p].user, rej)])
          ELSE proc' = Goto(p, "jg_deduct", [g |-> game])
  /\ UNCHANGED <<dbVars, routerVars, storeVars, histVars>>

JgDeduct(p) ==
  /\ proc[p].pc = "jg_deduct"
  /\ LET u == proc[p].user
     IN \E ok \in ConsumeChoices(u) :
          LET d == DeductCredits(CurL, u, proc[p].g.entryAmount, ok)
          IN /\ SetL(d.L)
             /\ betLog' = IF d.success THEN [betLog EXCEPT ![u] = @ + 1] ELSE betLog
             /\ IF d.success
                  THEN /\ base' = [base EXCEPT ![u] = Balances(u)]
                       /\ proc' = Goto(p, "jg_write", [ded |-> proc[p].g.entryAmount])
                  ELSE /\ UNCHANGED base
                       /\ proc' = Goto(p, "jg_unlock", [ret |-> Ret("joinGame", u, "no_credit")])
  /\ UNCHANGED <<merchantTag, merchantIncome, bigGame, routerVars, refundLog, game, deck, timer, bot, lock, started, calls, runs>>

JgWrite(p) ==
  /\ proc[p].pc = "jg_write"
  /\ game' = JoinedSnapshot(proc[p].g, proc[p].user)
  /\ proc' = Goto(p, "jg_unlock", [ret |-> Ret("joinGame", proc[p].user, "ok")])
  /\ UNCHANGED <<dbVars, routerVars, cache, deck, timer, bot, lock, histVars>>

\* trackTaggedUserSpending or the snapshot write throws: joinGame has no
\* catch, finally releases the lock and the exception goes to the caller
\* (processRoomQueue logs it)
JgThrows(p) ==
  /\ proc[p].pc = "jg_write"
  /\ proc' = Goto(p, "jg_unlock", [ret |-> Ret("joinGame", proc[p].user, "exception")])
  /\ UNCHANGED <<dbVars, routerVars, storeVars, histVars>>

JgUnlock(p) ==
  /\ proc[p].pc = "jg_unlock"
  /\ lock' = ReleaseLock(lock, "joinlock", proc[p].tok)
  /\ proc' = Return(p, proc[p].ret)
  /\ UNCHANGED <<dbVars, routerVars, cache, game, deck, timer, bot, histVars>>


\* ---- beginGame
\* the snapshot beginGame writes for a waiting game of two players or more
BegunSnapshot(g, t) ==
  [g EXCEPT !.status = "playing",
            !.currentRound = 1,
            !.players = [i \in 1..Len(g.players) |->
                           [g.players[i] EXCEPT !.hasDrawn = FALSE, !.currentCard = NoCard]],
            !.countdownEndsAt = t + COUNTDOWN_DELAY]

\* one attempt of acquireLockWithRetry(lowcard:joinlock, 15, 5, 200); when
\* the attempts are used up beginGame goes on without the lock
BgAcquire(p) ==
  IF CanAcquire("joinlock")
    THEN /\ lock' = [lock EXCEPT !["joinlock"] = p]
         /\ proc' = Goto(p, "bg_read", [op |-> "beginGame", tok |-> p])
    ELSE /\ UNCHANGED lock
         /\ IF proc[p].tries + 1 >= JOIN_LOCK_RETRIES
              THEN proc' = Goto(p, "bg_read", [op |-> "beginGame", tok |-> 0])
              ELSE proc' = Goto(p, "bg_lock", [op |-> "beginGame", tries |-> proc[p].tries + 1])

BeginGame(p) ==
  /\ IsIdle(p)
  /\ BgAcquire(p)
  /\ UNCHANGED <<dbVars, routerVars, cache, game, deck, timer, bot, histVars>>

BgLock(p) ==
  /\ proc[p].pc = "bg_lock"
  /\ BgAcquire(p)
  /\ UNCHANGED <<dbVars, routerVars, cache, game, deck, timer, bot, histVars>>

BgRead(p) ==
  /\ proc[p].pc = "bg_read"
  /\ IF game = NoGame \/ game.status # "waiting"
       THEN proc' = Goto(p, "bg_unlock", [ret |-> Ret("beginGame", 0, "null")])
       ELSE IF Len(game.players) < 2
         THEN proc' = Goto(p, "bg_cancel", [g |-> game])
         ELSE proc' = Goto(p, "bg_deck", [g |-> game])
  /\ UNCHANGED <<dbVars, routerVars, storeVars, histVars>>

BgCancel(p) ==
  /\ proc[p].pc = "bg_cancel"
  /\ SetL(RefundPlayers(CurL, proc[p].g.players, 1, proc[p].g.entryAmount))
  /\ CleanupRedisKeys
  /\ proc' = Goto(p, "bg_unlock", [ret |-> RetG("beginGame", 0, "cancelled", proc[p].g)])
  /\ UNCHANGED <<merchantTag, merchantIncome, bigGame, routerVars, refundLog, betLog, bot, base, started, calls, runs>>

\* initializeDeck: a freshly shuffled deck of every card
BgDeck(p) ==
  /\ proc[p].pc = "bg_deck"
  /\ deck' = [exists |-> TRUE, cards |-> Cards]
  /\ proc' = Goto(p, "bg_write", <<>>)
  /\ UNCHANGED <<dbVars, routerVars, cache, game, timer, bot, lock, histVars>>

BgWrite(p) ==
  /\ proc[p].pc = "bg_write"
  /\ game' = BegunSnapshot(proc[p].g, now)
  /\ proc' = Goto(p, "bg_unlock", [ret |-> Ret("beginGame", 0, "started")])
  /\ UNCHANGED <<dbVars, routerVars, cache, deck, timer, bot, lock, histVars>>

BgUnlock(p) ==
  /\ proc[p].pc = "bg_unlock"
  /\ lock' = ReleaseLock(lock, "joinlock", proc[p].tok)
  /\ proc' = Return(p, proc[p].ret)
  /\ UNCHANGED <<dbVars, routerVars, cache, game, deck, timer, bot, histVars>>


\* ---- cancelByStarter
\* the rejections without the test of the caller
CancelRejectionAnyCaller(g, u) ==
  IF g = NoGame THEN "silent"
  ELSE IF g.status # "waiting" THEN "not_waiting"
  ELSE ""

CancelRejection(g, u) ==
  IF g = NoGame THEN "silent"
  ELSE IF g.status # "waiting" THEN "not_waiting"
  ELSE IF g.startedBy # u THEN "not_starter"
  ELSE ""

CancelByStarter(p, u) ==
  /\ IsIdle(p)
  /\ LET rej == CancelRejection(game, u)
     IN IF rej # ""
          THEN proc' = Return(p, Ret("cancelByStarter", u, rej))
          ELSE proc' = Goto(p, "cb_apply", [op |-> "cancelByStarter", user |-> u, g |-> game])
  /\ UNCHANGED <<dbVars, routerVars, storeVars, histVars>>

CbApply(p) ==
  /\ proc[p].pc = "cb_apply"
  /\ SetL(RefundPlayers(CurL, proc[p].g.players, 1, proc[p].g.entryAmount))
  /\ CleanupRedisKeys
  /\ proc' = Return(p, RetG("cancelByStarter", proc[p].user, "ok", proc[p].g))
  /\ UNCHANGED <<merchantTag, merchantIncome, bigGame, routerVars, refundLog, betLog, bot, base, started, calls, runs>>


\* ---- stopGame
StopRejection(g) ==
  IF g = NoGame THEN "none"
  ELSE IF g.status = "playing" THEN "playing"
  ELSE ""

StopGame(p) ==
  /\ IsIdle(p)
  /\ LET rej == StopRejection(game)
     IN IF rej # ""
          THEN proc' = Return(p, Ret("stopGame", 0, rej))
          ELSE proc' = Goto(p, "st_apply", [op |-> "stopGame", g |-> game])
  /\ UNCHANGED <<dbVars, routerVars, storeVars, histVars>>

StApply(p) ==
  /\ proc[p].pc = "st_apply"
  /\ SetL(RefundPlayers(CurL, proc[p].g.players, 1, proc[p].g.entryAmount))
  /\ CleanupRedisKeys
  /\ proc' = Return(p, RetG("stopGame", 0, "ok", proc[p].g))
  /\ UNCHANGED <<merchantTag, merchantIncome, bigGame, routerVars, refundLog, betLog, bot, base, started, calls, runs>>


\* ---- resetGame
\* the players resetGame refunds: if (!player.isEliminated)
ResetRefunded(g) == SelectSeq(g.players, LAMBDA q : ~q.isEliminated)

ResetGame(p) ==
  /\ IsIdle(p)
  /\ IF game = NoGame
       THEN proc' = Return(p, Ret("resetGame", 0, "none"))
       ELSE proc' = Goto(p, "rg_apply", [op |-> "resetGame", g |-> game])
  /\ UNCHANGED <<dbVars, routerVars, storeVars, histVars>>

RgApply(p) ==
  /\ proc[p].pc = "rg_apply"
  /\ SetL(RefundPlayers(CurL, ResetRefunded(proc[p].g), 1, proc[p].g.entryAmount))
  /\ game' = NoGame
  /\ timer' = FALSE
  /\ deck' = NoDeck
  /\ proc' = Return(p, RetG("resetGame", 0, "ok", proc[p].g))
  /\ UNCHANGED <<merchantTag, merchantIncome, bigGame, routerVars, refundLog, betLog, bot, lock, base, started, calls, runs>>


\* ---- the bot record of the room
AddBotToRoom(p) ==
  /\ IsIdle(p)
  /\ IF bot
       THEN proc' = Return(p, Ret("addBotToRoom", 0, "already")) /\ UNCHANGED bot
       ELSE proc' = Return(p, Ret("addBotToRoom", 0, "ok")) /\ bot' = TRUE
  /\ UNCHANGED <<dbVars, routerVars, cache, game, deck, timer, lock, histVars>>

\* the players removeBotFromRoom refunds: those of a waiting game
BotRemovalRefunded(g) ==
  IF g # NoGame /\ g.status = "waiting" THEN g.players ELSE <<>>

RemoveBotFromRoom(p) ==
  /\ IsIdle(p)
  /\ IF ~bot
       THEN proc' = Return(p, Ret("removeBotFromRoom", 0, "no_bot"))
       ELSE proc' = Goto(p, "rb_apply", [op |-> "removeBotFromRoom", g |-> game])
  /\ UNCHANGED <<dbVars, routerVars, storeVars, histVars>>

RbApply(p) ==
  /\ proc[p].pc = "rb_apply"
  /\ SetL(RefundPlayers(CurL, BotRemovalRefunded(proc[p].g), 1,
                        IF proc[p].g = NoGame THEN 0 ELSE proc[p].g.entryAmount))
  /\ bot' = FALSE
  /\ game' = NoGame
  /\ deck' = NoDeck
  /\ proc' = Return(p, RetG("removeBotFromRoom", 0, "ok", proc[p].g))
  /\ UNCHANGED <<merchantTag, merchantIncome, bigGame, routerVars, refundLog, betLog, timer, lock, base, started, calls, runs>>


\* ---- drawCardForPlayer
\* findIndex(p => p.userId == userId && !p.isEliminated), 0 when there is none
RECURSIVE FindActive(_, _, _)
FindActive(players, u, i) ==
  IF i > Len(players) THEN 0
  ELSE IF players[i].userId = u /\ ~players[i].isEliminated THEN i
  ELSE FindActive(players, u, i + 1)

\* the rejections without the test of hasDrawn
DrawRejectionNoDrawnTest(g, u, t) ==
  IF g = NoGame THEN "silent"
  ELSE IF g.status # "playing" THEN "not_playing"
  ELSE IF g.countdownEndsAt # NoTime /\ t < g.countdownEndsAt THEN "countdown"
  ELSE IF FindActive(g.players, u, 1) = 0 THEN "not_in_game"
  ELSE IF g.isTieBreaker /\ ~g.players[FindActive(g.players, u, 1)].inTieBreaker THEN "not_tied"
  ELSE ""

\* the rejection drawCardForPlayer answers for the snapshot it read
DrawRejection(g, u, t) ==
  IF g = NoGame THEN "silent"
  ELSE IF g.status # "playing" THEN "not_playing"
  ELSE IF g.countdownEndsAt # NoTime /\ t < g.countdownEndsAt THEN "countdown"
  ELSE IF FindActive(g.players, u, 1) = 0 THEN "not_in_game"
  ELSE IF g.isTieBreaker /\ ~g.players[FindActive(g.players, u, 1)].inTieBreaker THEN "not_tied"
  ELSE IF g.players[FindActive(g.players, u, 1)].hasDrawn THEN "already_drew"
  ELSE ""

\* drawCardFromDeck: the stored deck, or a new one when the key is missing or
\* the deck is empty.  The deck is kept as the set of cards left in it: the
\* shuffle is uniform, so the card popped is any card of the deck.
DeckToDrawFrom == IF deck.exists /\ deck.cards # {} THEN deck.cards ELSE Cards

\* game.players[i].currentCard = card; game.players[i].hasDrawn = true
WithCard(g, i, c) ==
  [g EXCEPT !.players[i] = [@ EXCEPT !.currentCard = c, !.hasDrawn = TRUE]]

DcAcquire(p, u) ==
  IF CanAcquire("drawlock")
    THEN /\ lock' = [lock EXCEPT !["drawlock"] = p]
         /\ proc' = Goto(p, "dc_read", [op |-> "drawCardForPlayer", user |-> u, tok |-> p])
    ELSE /\ UNCHANGED lock
         /\ IF proc[p].tries + 1 >= DRAW_LOCK_RETRIES
              THEN proc' = Return(p, Ret("drawCardForPlayer", u, "busy"))
              ELSE proc' = Goto(p, "dc_lock", [op |-> "drawCardForPlayer", user |-> u,
                                               tries |-> proc[p].tries + 1])

DrawCardForPlayer(p, u) ==
  /\ IsIdle(p)
  /\ DcAcquire(p, u)
  /\ UNCHANGED <<dbVars, routerVars, cache, game, deck, timer, bot, histVars>>

DcLock(p) ==
  /\ proc[p].pc = "dc_lock"
  /\ DcAcquire(p, proc[p].user)
  /\ UNCHANGED <<dbVars, routerVars, cache, game, deck, timer, bot, histVars>>

DcRead(p) ==
  /\ proc[p].pc = "dc_read"
  /\ LET rej == DrawRejection(game, proc[p].user, now)
     IN IF rej # ""
          THEN proc' = Goto(p, "dc_unlock", [ret |-> Ret("drawCardForPlayer", proc[p].user, rej)])
          ELSE proc' = Goto(p, "dc_draw", [g |-> game])
  /\ UNCHANGED <<dbVars, routerVars, storeVars, histVars>>

DcDraw(p) ==
  /\ proc[p].pc = "dc_draw"
  /\ \E c \in DeckToDrawFrom :
       /\ deck' = [exists |-> TRUE, cards |-> DeckToDrawFrom \ {c}]
       /\ proc' = Goto(p, "dc_write", [card |-> c])
  /\ UNCHANGED <<dbVars, routerVars, cache, game, timer, bot, lock, histVars>>

DcWrite(p) ==
  /\ proc[p].pc = "dc_write"
  /\ game' = WithCard(proc[p].g, FindActive(proc[p].g.players, proc[p].user, 1), proc[p].card)
  /\ proc' = Goto(p, "dc_unlock",
                  [ret |-> [op |-> "drawCardForPlayer", user |-> proc[p].user, res |-> "ok",
                            g |-> proc[p].g, card |-> proc[p].card]])
  /\ UNCHANGED <<dbVars, routerVars, cache, deck, timer, bot, lock, histVars>>

DcUnlock(p) ==
  /\ proc[p].pc = "dc_unlock"
  /\ lock' = ReleaseLock(lock, "drawlock", proc[p].tok)
  /\ proc' = Return(p, proc[p].ret)
  /\ UNCHANGED <<dbVars, routerVars, cache, game, deck, timer, bot, histVars>>


\* ---- autoDrawForTimeout
\* the player autoDrawForTimeout draws for
NeedsAutoDraw(g, q) ==
  /\ ~q.isEliminated
  /\ ~(g.isTieBreaker /\ ~q.inTieBreaker)
  /\ ~q.hasDrawn

\* the first index from i on whose player needs a card, 0 when there is none
RECURSIVE NextAutoDraw(_, _)
NextAutoDraw(g, i) ==
  IF i > Len(g.players) THEN 0
  ELSE IF NeedsAutoDraw(g, g.players[i]) THEN i
  ELSE NextAutoDraw(g, i + 1)

\* The timer poller calls autoDrawForTimeout and tallyRound for a round of a
\* game in play (spec 4.6); the functions themselves do not test the status.
RoundInPlay == game = NoGame \/ game.status = "playing"

AutoDrawForTimeout(p) ==
  /\ IsIdle(p)
  /\ RoundInPlay
  /\ IF game = NoGame
       THEN proc' = Return(p, Ret("autoDrawForTimeout", 0, "none"))
       ELSE proc' = Goto(p, "ad_loop", [op |-> "autoDrawForTimeout", g |-> game])
  /\ UNCHANGED <<dbVars, routerVars, storeVars, histVars>>

\* one turn of the loop: a card from the deck for the next player in need
AdLoop(p) ==
  /\ proc[p].pc = "ad_loop"
  /\ NextAutoDraw(proc[p].g, 1) # 0
  /\ \E c \in DeckToDrawFrom :
       /\ deck' = [exists |-> TRUE, cards |-> DeckToDrawFrom \ {c}]
       /\ proc' = Goto(p, "ad_loop", [g |-> WithCard(proc[p].g, NextAutoDraw(proc[p].g, 1), c)])
  /\ UNCHANGED <<dbVars, routerVars, cache, game, timer, bot, lock, histVars>>

AdWrite(p) ==
  /\ proc[p].pc = "ad_loop"
  /\ NextAutoDraw(proc[p].g, 1) = 0
  /\ game' = proc[p].g
  /\ proc' = Return(p, RetG("autoDrawForTimeout", 0, "ok", proc[p].g))
  /\ UNCHANGED <<dbVars, routerVars, cache, deck, timer, bot, lock, histVars>>


\* ---- tallyRound and finishGame
\* the players whose hands are compared
InHand(g, q) ==
  /\ ~q.isEliminated
  /\ q.currentCard # NoCard
  /\ (g.isTieBreaker => q.inTieBreaker)

CurrentHandsPlayers(g) == SelectSeq(g.players, LAMBDA q : InHand(g, q))

\* the loop that collects the holders of the lowest card value
RECURSIVE LowestHands(_, _, _)
LowestHands(hands, i, acc) ==
  IF i > Len(hands) THEN acc
  ELSE IF acc = <<>> THEN LowestHands(hands, i + 1, <<hands[i]>>)
  ELSE IF hands[i].currentCard.value < acc[1].currentCard.value
    THEN LowestHands(hands, i + 1, <<hands[i]>>)
  ELSE IF hands[i].currentCard.value = acc[1].currentCard.value
    THEN LowestHands(hands, i + 1, Append(acc, hands[i]))
  ELSE LowestHands(hands, i + 1, acc)

\* findIndex(p => p.userId == loser.userId), 0 when there is none
RECURSIVE FindUser(_, _, _)
FindUser(players, u, i) ==
  IF i > Len(players) THEN 0
  ELSE IF players[i].userId = u THEN i
  ELSE FindUser(players, u, i + 1)

\* a single lowest hand: the loser is out and the tie state is left as it was
EliminatedKeepingTie(g, loser) ==
  LET idx == FindUser(g.players, loser.userId, 1)
  IN [g EXCEPT !.players = [i \in 1..Len(g.players) |->
                  [g.players[i] EXCEPT !.isEliminated = IF i = idx THEN TRUE ELSE @]]]

\* a single lowest hand: the loser is out and the tie state is cleared
Eliminated(g, loser) ==
  LET idx == FindUser(g.players, loser.userId, 1)
  IN [g EXCEPT !.isTieBreaker = FALSE,
               !.players = [i \in 1..Len(g.players) |->
                  [g.players[i] EXCEPT
                     !.isEliminated = IF i = idx THEN TRUE ELSE @,
                     !.inTieBreaker = FALSE]]]

RemainingPlayers(g) == SelectSeq(g.players, LAMBDA q : ~q.isEliminated)

\* the next round with the survivors' cards left in their hands
NextRoundKeepingCards(g, t) ==
  [g EXCEPT !.currentRound = @ + 1,
            !.countdownEndsAt = t + COUNTDOWN_DELAY,
            !.wasTieBreaker = FALSE]

\* the next round after an elimination
NextRound(g, t) ==
  [g EXCEPT !.currentRound = @ + 1,
            !.players = [i \in 1..Len(g.players) |->
               IF g.players[i].isEliminated THEN g.players[i]
               ELSE [g.players[i] EXCEPT !.hasDrawn = FALSE, !.currentCard = NoCard]],
            !.countdownEndsAt = t + COUNTDOWN_DELAY,
            !.wasTieBreaker = FALSE]

\* a tie-breaker round with the tied players' cards left in their hands
TieRoundKeepingCards(g, tiedIds, t) ==
  [g EXCEPT !.players = [i \in 1..Len(g.players) |->
               IF g.players[i].isEliminated THEN g.players[i]
               ELSE [g.players[i] EXCEPT !.inTieBreaker = (g.players[i].userId \in tiedIds)]],
            !.isTieBreaker = TRUE,
            !.wasTieBreaker = TRUE,
            !.currentRound = @ + 1,
            !.countdownEndsAt = t + COUNTDOWN_DELAY]

\* a tie-breaker round that every survivor plays
TieRoundForAll(g, tiedIds, t) ==
  [g EXCEPT !.players = [i \in 1..Len(g.players) |->
               IF g.players[i].isEliminated THEN g.players[i]
               ELSE [g.players[i] EXCEPT !.hasDrawn = FALSE, !.currentCard = NoCard,
                                         !.inTieBreaker = TRUE]],
            !.isTieBreaker = TRUE,
            !.wasTieBreaker = TRUE,
            !.currentRound = @ + 1,
            !.countdownEndsAt = t + COUNTDOWN_DELAY]

\* several lowest hands: a tie-breaker round for the tied players
TieRound(g, tiedIds, t) ==
  [g EXCEPT !.players = [i \in 1..Len(g.players) |->
               IF g.players[i].isEliminated THEN g.players[i]
               ELSE IF g.players[i].userId \in tiedIds
                 THEN [g.players[i] EXCEPT !.hasDrawn = FALSE, !.currentCard = NoCard,
                                           !.inTieBreaker = TRUE]
                 ELSE [g.players[i] EXCEPT !.inTieBreaker = FALSE]],
            !.isTieBreaker = TRUE,
            !.wasTieBreaker = TRUE,
            !.currentRound = @ + 1,
            !.countdownEndsAt = t + COUNTDOWN_DELAY]

\* houseFee = Math.floor(game.pot * HOUSE_FEE_PERCENT / 100)
HouseFee(pot) == (pot * HOUSE_FEE_PERCENT) \div 100

\* the whole pot as the winnings
WinningsWholePot(pot) == pot

\* winnings = game.pot - houseFee
Winnings(pot) == pot - HouseFee(pot)

\* the whole house fee as the commission
CommissionWholeFee(g) ==
  IF g.startedBy \in merchantTag /\ HouseFee(g.pot) > 0 THEN HouseFee(g.pot) ELSE 0

\* commission = Math.floor(houseFee * 0.1), paid when the starter has an
\* active merchant tag and the house fee is positive
Commission(g) ==
  IF g.startedBy \in merchantTag /\ HouseFee(g.pot) > 0
    THEN HouseFee(g.pot) \div 10
    ELSE 0

\* history: the entry of every player of a finished game is settled
RECURSIVE SettleStakes(_, _, _, _)
SettleStakes(st, players, i, amount) ==
  IF i > Len(players) THEN st
  ELSE SettleStakes([st EXCEPT ![players[i].userId] = @ - amount], players, i + 1, amount)

TallyRound(p) ==
  /\ IsIdle(p)
  /\ RoundInPlay
  /\ game # NoGame => game.currentRound <= MaxRound
  /\ IF game = NoGame
       THEN proc' = Return(p, Ret("tallyRound", 0, "null"))
       ELSE LET hands == CurrentHandsPlayers(game)
                lowest == LowestHands(hands, 1, <<>>)
            IN IF hands = <<>>
                 THEN proc' = Return(p, Ret("tallyRound", 0, "error"))
                 ELSE IF Len(lowest) = 1
                   THEN LET g1 == Eliminated(game, lowest[1])
                        IN IF Len(RemainingPlayers(g1)) < 2
                             THEN proc' = Goto(p, "fg_pay",
                                               [op |-> "tallyRound", g |-> g1,
                                                user |-> lowest[1].userId])
                             ELSE proc' = Goto(p, "tr_write",
                                               [op |-> "tallyRound", g |-> NextRound(g1, now),
                                                user |-> lowest[1].userId,
                                                ret |-> RetG("tallyRound", lowest[1].userId,
                                                             "eliminated", game)])
                   ELSE proc' = Goto(p, "tr_write",
                          [op |-> "tallyRound",
                           g |-> TieRound(game, {lowest[i].userId : i \in 1..Len(lowest)}, now),
                           ret |-> RetG("tallyRound", 0, "tie", game)])
  /\ UNCHANGED <<dbVars, routerVars, storeVars, histVars>>

TrWrite(p) ==
  /\ proc[p].pc = "tr_write"
  /\ game' = proc[p].g
  /\ proc' = Return(p, proc[p].ret)
  /\ UNCHANGED <<dbVars, routerVars, cache, deck, timer, bot, lock, histVars>>

\* finishGame up to the winner's credit: the commission, then addCredits
FgPay(p) ==
  /\ proc[p].pc = "fg_pay"
  /\ LET g == proc[p].g
         remaining == RemainingPlayers(g)
     IN IF remaining # <<>>
          THEN /\ merchantIncome' = merchantIncome + Commission(g)
               /\ credits' = WinCredits(CurL, remaining[1].userId, Winnings(g.pot)).credits
               /\ cache' = WinCredits(CurL, remaining[1].userId, Winnings(g.pot)).cache
               /\ stake' = SettleStakes(stake, g.players, 1, g.entryAmount)
               /\ proc' = Goto(p, "fg_cleanup",
                    [ret |-> [op |-> "tallyRound", user |-> proc[p].user, res |-> "gameOver",
                              g |-> g, winner |-> remaining[1].userId,
                              winnings |-> Winnings(g.pot), houseFee |-> HouseFee(g.pot),
                              commission |-> Commission(g)]])
          ELSE /\ UNCHANGED <<merchantIncome, credits, cache, stake>>
               /\ proc' = Goto(p, "fg_cleanup",
                    [ret |-> [op |-> "tallyRound", user |-> proc[p].user, res |-> "gameOver",
                              g |-> g, winner |-> 0, winnings |-> Winnings(g.pot),
                              houseFee |-> HouseFee(g.pot), commission |-> 0]])
  /\ UNCHANGED <<tagged, merchantTag, bigGame, routerVars, refundLog, betLog, game, deck, timer, bot, lock, base, started, calls, runs>>

\* finally { await cleanupRedisKeys(roomId) }
FgCleanup(p) ==
  /\ proc[p].pc = "fg_cleanup"
  /\ CleanupRedisKeys
  /\ proc' = Return(p, proc[p].ret)
  /\ UNCHANGED <<dbVars, routerVars, cache, bot, histVars>>


\* ---- checkAndCleanupStaleGame called on its own
CheckAndCleanupStaleGame(p) ==
  /\ IsIdle(p)
  /\ IF IsStale(game, now)
       THEN proc' = Goto(p, "cs_apply", [op |-> "checkAndCleanupStaleGame", g |-> game])
       ELSE proc' = Return(p, Ret("checkAndCleanupStaleGame", 0, "null"))
  /\ UNCHANGED <<dbVars, routerVars, storeVars, histVars>>

CsApply(p) ==
  /\ proc[p].pc = "cs_apply"
  /\ SetL(RefundPlayers(CurL, proc[p].g.players, 1, proc[p].g.entryAmount))
  /\ game' = NoGame
  /\ timer' = FALSE
  /\ deck' = NoDeck
  /\ proc' = Return(p, RetG("checkAndCleanupStaleGame", 0, "cleaned", proc[p].g))
  /\ UNCHANGED <<merchantTag, merchantIncome, bigGame, routerVars, refundLog, betLog, bot, lock, base, started, calls, runs>>


\* ---- restart recovery: handleRestartRefunds, the sweep of lowcard:game:*
\* a sweep that refunds the players of waiting games only
RestartRefundedWaitingOnly(g) ==
  IF g # NoGame /\ g.status = "waiting" THEN g.players ELSE <<>>

\* the players the sweep refunds for the snapshot it read
RestartRefunded(g) ==
  IF g # NoGame /\ g.status \in {"waiting", "playing"} THEN g.players ELSE <<>>

\* refundPlayer: credits = credits + amount, the credit_logs row (counted in
\* refundLog), DEL credits:{userId}
RefundPlayer(L, u, amount) ==
  [L EXCEPT !.credits[u] = @ + amount, !.cache[u] = NoCache, !.stake[u] = @ - amount]

\* for (const player of game.players) await refundPlayer(player.userId, game.entryAmount, ...)
RECURSIVE RestartRefundPlayers(_, _, _, _)
RestartRefundPlayers(L, players, i, amount) ==
  IF i > Len(players) THEN L
  ELSE RestartRefundPlayers(RefundPlayer(L, players[i].userId, amount), players, i + 1, amount)

\* the credit_logs rows of the same loop
RECURSIVE LoggedRefunds(_, _, _)
LoggedRefunds(log, players, i) ==
  IF i > Len(players) THEN log
  ELSE LoggedRefunds([log EXCEPT ![players[i].userId] = @ + 1], players, i + 1)

\* startGameService calls handleRestartRefunds
HandleRestartRefunds(p) ==
  /\ IsIdle(p)
  /\ proc' = Goto(p, "hr_keys", [op |-> "handleRestartRefunds"])
  /\ UNCHANGED <<dbVars, routerVars, storeVars, histVars>>

\* the service stops wherever its handler is, starts again and runs
\* handleRestartRefunds; the keyed store and the database keep their content
Restart(p) ==
  /\ proc[p].op # "handleRestartRefunds"
  /\ proc' = [proc EXCEPT ![p] = [Idle EXCEPT !.pc = "hr_keys", !.op = "handleRestartRefunds"]]
  /\ UNCHANGED <<dbVars, routerVars, storeVars, histVars>>

\* redis.keys('lowcard:game:*')
HrKeys(p) ==
  /\ proc[p].pc = "hr_keys"
  /\ IF game = NoGame
       THEN /\ proc' = Return(p, Ret("handleRestartRefunds", 0, "none"))
            /\ runs' = runs + 1
       ELSE /\ proc' = Goto(p, "hr_get", <<>>)
            /\ UNCHANGED runs
  /\ UNCHANGED <<dbVars, routerVars, storeVars, stake, base, started, calls>>

\* redis.get(key)
HrGet(p) ==
  /\ proc[p].pc = "hr_get"
  /\ proc' = Goto(p, "hr_refund", [g |-> game])
  /\ UNCHANGED <<dbVars, routerVars, storeVars, histVars>>

\* the refunds of the players of a waiting or playing game
HrRefund(p) ==
  /\ proc[p].pc = "hr_refund"
  /\ LET players == RestartRefunded(proc[p].g)
         amount == IF proc[p].g = NoGame THEN 0 ELSE proc[p].g.entryAmount
     IN /\ SetL(RestartRefundPlayers(CurL, players, 1, amount))
        /\ refundLog' = LoggedRefunds(refundLog, players, 1)
  /\ proc' = Goto(p, "hr_del", <<>>)
  /\ UNCHANGED <<merchantTag, merchantIncome, bigGame, routerVars, betLog, game, deck, timer, bot, lock,
                 base, started, calls, runs>>

\* a sweep that leaves the snapshot under its key
HrDelKeepsSnapshot(p) ==
  /\ proc[p].pc = "hr_del"
  /\ deck' = NoDeck
  /\ proc' = Return(p, RetG("handleRestartRefunds", 0, "swept", proc[p].g))
  /\ runs' = runs + 1
  /\ UNCHANGED <<dbVars, routerVars, cache, game, timer, bot, lock, stake, base, started, calls>>

\* redis.del(key); redis.del(lowcard:deck:{R})
HrDel(p) ==
  /\ proc[p].pc = "hr_del"
  /\ game' = NoGame
  /\ deck' = NoDeck
  /\ proc' = Return(p, RetG("handleRestartRefunds", 0, "swept", proc[p].g))
  /\ runs' = runs + 1
  /\ UNCHANGED <<dbVars, routerVars, cache, timer, bot, lock, stake, base, started, calls>>


\* ---- the ledger called by several callers at once: deductCredits and
\* addCredits, one step for each awaited call
DeductCreditsCall(p, u, amount) ==
  /\ IsIdle(p)
  /\ \E ok \in ConsumeChoices(u) :
       LET c == ConsumeForGame(CurL, u, amount, tagged[u] > 0 /\ ok)
       IN /\ tagged' = [tagged EXCEPT ![u] = @ - c.usedTaggedCredits]
          /\ IF c.remainingAmount <= 0
               THEN /\ cache' = [cache EXCEPT ![u] = GetUserCredits(CurL, u)]
                    /\ betLog' = [betLog EXCEPT ![u] = @ + 1]
                    /\ stake' = [stake EXCEPT ![u] = @ + amount]
                    /\ proc' = Return(p, Ret("deductCredits", u, "ok"))
               ELSE /\ UNCHANGED <<cache, betLog, stake>>
                    /\ proc' = Goto(p, "dd_read",
                                    [op |-> "deductCredits", user |-> u, amount |-> amount,
                                     ded |-> c.remainingAmount])
  /\ UNCHANGED <<credits, merchantTag, merchantIncome, bigGame, refundLog, routerVars,
                 game, deck, timer, bot, lock, base, started, calls, runs>>

\* const current = await getUserCredits(userId); if (current < remainingAmount)
DdRead(p) ==
  /\ proc[p].pc = "dd_read"
  /\ LET u == proc[p].user
         current == GetUserCredits(CurL, u)
     IN /\ cache' = [cache EXCEPT ![u] = current]
        /\ IF current < proc[p].ded
             THEN proc' = Return(p, Ret("deductCredits", u, "no_credit"))
             ELSE proc' = Goto(p, "dd_update", <<>>)
  /\ UNCHANGED <<dbVars, routerVars, game, deck, timer, bot, lock, histVars>>

\* the conditional UPDATE; no row updated is a failure
DdUpdate(p) ==
  /\ proc[p].pc = "dd_update"
  /\ LET u == proc[p].user
     IN IF HasBalance(credits[u], proc[p].ded)
          THEN /\ credits' = [credits EXCEPT ![u] = @ - proc[p].ded]
               /\ stake' = [stake EXCEPT ![u] = @ + proc[p].amount]
               /\ proc' = Goto(p, "dd_cache",
                    [ret |-> [op |-> "deductCredits", user |-> u, res |-> "ok", g |-> NoGame,
                              balance |-> credits[u] - proc[p].ded]])
          ELSE /\ UNCHANGED <<credits, stake>>
               /\ proc' = Return(p, Ret("deductCredits", u, "no_rows"))
  /\ UNCHANGED <<tagged, merchantTag, merchantIncome, bigGame, refundLog, betLog, routerVars,
                 storeVars, base, started, calls, runs>>

\* the new balance is cached and the bet is logged
DdCache(p) ==
  /\ proc[p].pc = "dd_cache"
  /\ cache' = [cache EXCEPT ![proc[p].user] = proc[p].ret.balance]
  /\ betLog' = [betLog EXCEPT ![proc[p].user] = @ + 1]
  /\ proc' = Return(p, Ret("deductCredits", proc[p].user, "ok"))
  /\ UNCHANGED <<credits, tagged, merchantTag, merchantIncome, bigGame, refundLog, routerVars,
                 game, deck, timer, bot, lock, histVars>>

\* addCredits: UPDATE users SET credits = credits + $1 ... RETURNING credits
AddCreditsCall(p, u, amount) ==
  /\ IsIdle(p)
  /\ credits' = [credits EXCEPT ![u] = @ + amount]
  /\ proc' = Goto(p, "ac_cache",
       [op |-> "addCredits", user |-> u, amount |-> amount,
        ret |-> [op |-> "addCredits", user |-> u, res |-> "ok", g |-> NoGame,
                 balance |-> credits[u] + amount]])
  /\ UNCHANGED <<tagged, merchantTag, merchantIncome, bigGame, refundLog, betLog, routerVars,
                 storeVars, histVars>>

AcCache(p) ==
  /\ proc[p].pc = "ac_cache"
  /\ cache' = [cache EXCEPT ![proc[p].user] = proc[p].ret.balance]
  /\ proc' = Return(p, Ret("addCredits", proc[p].user, "ok"))
  /\ UNCHANGED <<dbVars, routerVars, game, deck, timer, bot, lock, histVars>>

\* ---- the environment: the clock, the timer key, the lock keys' TTL
\* the instants at which a comparison of the code with Date.now() changes
Instants(g) ==
  IF g = NoGame THEN {}
  ELSE IF g.status = "waiting"
    THEN {g.joinDeadline + 1, g.createdAt + STUCK_GAME_AGE + 1,
          g.joinDeadline + STALE_GAME_TIMEOUT + 1}
    ELSE {g.countdownEndsAt}

\* snapshot g seen d milliseconds later
Elapse(g, d) ==
  IF g = NoGame THEN g
  ELSE [g EXCEPT !.createdAt = @ - d,
                 !.joinDeadline = @ - d,
                 !.countdownEndsAt = IF @ = NoTime THEN @ ELSE @ - d]

\* time passes up to the next instant that changes a comparison
Tick ==
  /\ \E t \in Instants(game) :
       /\ t > now
       /\ \A t2 \in Instants(game) : t2 > now => t <= t2
       /\ game' = Elapse(game, t - now)
       /\ proc' = [p \in Procs |->
                     [proc[p] EXCEPT !.g = Elapse(@, t - now), !.ret.g = Elapse(@, t - now)]]
  /\ UNCHANGED <<dbVars, routerVars, cache, deck, timer, bot, lock, histVars>>

\* setTimer, called by the event layer on a phase transition of a game
SetTimer ==
  /\ game # NoGame
  /\ ~timer
  /\ timer' = TRUE
  /\ UNCHANGED <<dbVars, routerVars, cache, game, deck, bot, lock, proc, histVars>>

\* the timer key's TTL (120 s) runs out
TimerExpire ==
  /\ timer
  /\ timer' = FALSE
  /\ UNCHANGED <<dbVars, routerVars, cache, game, deck, bot, lock, proc, histVars>>

\* a lock key's TTL runs out while its holder is still at work
LockExpire(k) ==
  /\ lock[k] # 0
  /\ lock' = [lock EXCEPT ![k] = 0]
  /\ UNCHANGED <<dbVars, routerVars, cache, game, deck, timer, bot, proc, histVars>>

\* the caller has taken the result
Done(p) ==
  /\ IsDone(p)
  /\ proc' = [proc EXCEPT ![p] = Idle]
  /\ UNCHANGED <<dbVars, routerVars, storeVars, histVars>>

\* the same, counted against the operations a run of SpecRace completes
DoneCounted(p) ==
  /\ IsDone(p)
  /\ proc' = [proc EXCEPT ![p] = Idle]
  /\ calls' = calls + 1
  /\ UNCHANGED <<dbVars, routerVars, storeVars, stake, base, started, runs>>

\* the silent field of the result object an operation returns
Silent(op, res) ==
  \/ res = "silent"
  \/ op = "drawCardForPlayer" /\ res \in {"busy", "countdown"}

\* ---- the subscriber of game:command: one queue and one worker per room

\* the number of commands received so far; a command is named by its number
Published == Cardinality(UNION {{arrived[r][i] : i \in 1..Len(arrived[r])} : r \in Rooms})

\* a worker that starts whenever the queue holds a command
WorkerMayStartAlways(q) == q.present /\ Len(q.items) > 0

\* processRoomQueue's early return: no queue, a worker at work, or nothing queued
WorkerMayStart(q) == q.present /\ ~q.processing /\ Len(q.items) > 0

\* enqueueCommand: the command is pushed on its room's queue and processRoomQueue
\* runs up to its first await: a worker that starts shifts the head of the queue
\* and calls the handler with it
EnqueueCommand(r) ==
  /\ Published < MaxCommands
  /\ LET c == Published + 1
         q0 == IF roomQueues[r].present THEN roomQueues[r]
               ELSE [present |-> TRUE, items |-> <<>>, processing |-> FALSE]
         q1 == [q0 EXCEPT !.items = Append(@, c)]
     IN /\ arrived' = [arrived EXCEPT ![r] = Append(@, c)]
        /\ IF WorkerMayStart(q1)
             THEN /\ roomQueues' = [roomQueues EXCEPT ![r] =
                       [q1 EXCEPT !.processing = TRUE, !.items = Tail(@)]]
                  /\ awaited' = [awaited EXCEPT ![r] = @ \cup {Head(q1.items)}]
                  /\ handled' = [handled EXCEPT ![r] = Append(@, Head(q1.items))]
             ELSE /\ roomQueues' = [roomQueues EXCEPT ![r] = q1]
                  /\ UNCHANGED <<awaited, handled>>
  /\ UNCHANGED <<dbVars, storeVars, proc, histVars, dispatched>>

\* a worker that a rejected handler stops: the rejection leaves the loop, the
\* commands behind stay queued and processing stays set
HandlerSettlesStopping(r, c) ==
  /\ c \in awaited[r]
  /\ awaited' = [awaited EXCEPT ![r] = @ \ {c}]
  /\ UNCHANGED <<dbVars, storeVars, proc, histVars, roomQueues, arrived, handled, dispatched>>

\* the awaited handler settles (a rejection is caught and logged): the worker
\* takes the next command of the queue, or with none left clears processing and
\* deletes the room's queue object
HandlerSettles(r, c) ==
  /\ c \in awaited[r]
  /\ LET q == roomQueues[r]
     IN IF Len(q.items) > 0
          THEN /\ roomQueues' = [roomQueues EXCEPT ![r] = [q EXCEPT !.items = Tail(@)]]
               /\ awaited' = [awaited EXCEPT ![r] = (@ \ {c}) \cup {Head(q.items)}]
               /\ handled' = [handled EXCEPT ![r] = Append(@, Head(q.items))]
          ELSE /\ roomQueues' = [roomQueues EXCEPT ![r] = NoQueue]
               /\ awaited' = [awaited EXCEPT ![r] = @ \ {c}]
               /\ UNCHANGED handled
  /\ UNCHANGED <<dbVars, storeVars, proc, histVars, arrived, dispatched>>

\* ---- the routing of a chat command to the game handlers

Handlers == {"dice", "lowcard", "legend"}
GameTypes == {"none", "dice", "lowcard", "flagbot"}
\* lowerMessage: the draw command, a roll command ('!r', '!roll'), a flag game
\* command ('!fg', '!b ..', '!lock'), a lifecycle command ('!start ..', '!j', ...),
\* three bot admin commands and a command of no game
Messages == {"!d", "!r", "!fg", "!start", "/bot dice", "/bot lowcard", "/bot stop", "hello"}

\* lowerMessage.startsWith('/bot ') || lowerMessage.startsWith('/add bot ')
IsBotAdminCommand(m) == m \in {"/bot dice", "/bot lowcard", "/bot stop"}

\* lowerMessage.includes(w) for the words the routing looks for
Includes(m, w) ==
  \/ m = "/bot dice" /\ w = "dice"
  \/ m = "/bot lowcard" /\ w = "lowcard"
  \/ m = "/bot stop" /\ w = "stop"

\* handlers called one after the other until one reports the command handled
RECURSIVE CallUntilHandled(_, _, _)
CallUntilHandled(hs, h, i) ==
  IF i > Len(hs) THEN <<>>
  ELSE IF h[hs[i]] THEN <<hs[i]>>
  ELSE <<hs[i]>> \o CallUntilHandled(hs, h, i + 1)

\* handleGameCommand (the socket path): the handlers called for one command,
\* given the room's active game type, the bot keys and the handlers' answers
HandleGameCommandCalls(m, a, h, keys) ==
  LET Only(cond, hs) == IF cond THEN hs ELSE <<>>
      SomeHandled(hs) == \E i \in 1..Len(hs) : h[hs[i]]
      admin ==
        IF ~IsBotAdminCommand(m) THEN <<>>
        ELSE Only(Includes(m, "dice"), <<"dice">>)
               \o Only(Includes(m, "lowcard"), <<"lowcard">>)
               \o Only(Includes(m, "flagh"), <<"legend">>)
               \o Only(Includes(m, "stop"), <<"lowcard", "legend">>)
      scoped ==
        IF m # "!start" THEN <<>>
        ELSE IF a = "dice" THEN <<"dice">>
        ELSE IF a = "lowcard" THEN <<"lowcard">>
        ELSE IF a = "flagbot" THEN <<"legend">>
        ELSE Only(keys.dicebot, <<"dice">>) \o Only(keys.lowcard, <<"lowcard">>)
      routed ==
        IF m = "!d" THEN Only(a = "lowcard", <<"lowcard">>)
        ELSE IF m = "!r" THEN Only(a = "dice", <<"dice">>)
        ELSE IF m = "!fg" THEN Only(a = "flagbot" \/ keys.flagbot, <<"legend">>)
        ELSE CallUntilHandled(scoped, h, 1)
               \o Only(~SomeHandled(scoped),
                       CallUntilHandled(<<"dice", "lowcard", "legend">>, h, 1))
  IN CallUntilHandled(admin, h, 1) \o Only(~SomeHandled(admin), routed)

\* the handler given to initSubscriber (the pub/sub path): the handlers called
\* for one command
CommandHandlerCalls(m, a, h) ==
  IF IsBotAdminCommand(m)
    THEN IF Includes(m, "dice") THEN <<"dice">>
         ELSE IF Includes(m, "lowcard") THEN <<"lowcard">>
         ELSE IF Includes(m, "flagh") THEN <<"legend">>
         ELSE <<>>
  ELSE IF m = "!d" /\ a = "lowcard" THEN <<"lowcard">>
  ELSE IF m = "!r" /\ a = "dice" THEN <<"dice">>
  ELSE IF m = "!fg" THEN <<"legend">>
  ELSE CallUntilHandled(<<"dice", "lowcard", "legend">>, h, 1)

\* a command received on the socket is routed
HandleGameCommand(m, a, h, keys) ==
  /\ dispatched' = [path |-> "socket", message |-> m, active |-> a,
                    calls |-> HandleGameCommandCalls(m, a, h, keys)]
  /\ UNCHANGED <<dbVars, storeVars, proc, histVars, roomQueues, awaited, arrived, handled>>

\* a command taken from game:command is routed
CommandHandler(m, a, h) ==
  /\ dispatched' = [path |-> "pubsub", message |-> m, active |-> a,
                    calls |-> CommandHandlerCalls(m, a, h)]
  /\ UNCHANGED <<dbVars, storeVars, proc, histVars, roomQueues, awaited, arrived, handled>>

\* ------------------------------------------------------- specifications
\* one handler at a time
\* the games a run creates, and those it plays out, are bounded
MayStart == started < MaxGames
MayPlay == started < MaxPlayed

MayCall == calls < MaxCalls

MayBet == \A u \in Users : betLog[u] < MaxBets

InLobby == game # NoGame /\ game.status = "waiting"
InPlay == game # NoGame /\ game.status = "playing"

\* startGame after its lock is taken
StartGameSteps(p) ==
  \/ SgStale(p)
  \/ SgRead(p)
  \/ SgDeduct(p)
  \/ SgWrite(p)
  \/ SgVerify(p)
  \/ SgUnlock(p)

\* joinGame after its lock is taken
JoinGameSteps(p) ==
  \/ JgRead(p)
  \/ JgDeduct(p)
  \/ JgWrite(p)
  \/ JgUnlock(p)

\* beginGame after its attempts at the lock
BeginGameSteps(p) ==
  \/ BgRead(p)
  \/ BgCancel(p)
  \/ BgDeck(p)
  \/ BgWrite(p)
  \/ BgUnlock(p)

\* Spec: the lobby of a room and the ways a game ends, one handler at a
\* time, with the clock, the timer key and the bot record.
Next ==
  \/ \E p \in SeqProcs :
       \/ MayStart /\ \E u \in Users, a \in Amounts : StartGame(p, u, a)
       \/ StartGameSteps(p)
       \/ SgStaleApply(p)
       \/ SgStuck(p)
       \/ SgStuckDelete(p)
       \/ \E u \in Users : JoinGame(p, u)
       \/ JoinGameSteps(p)
       \/ BeginGame(p)
       \/ BeginGameSteps(p)
       \/ \E u \in Users : CancelByStarter(p, u)
       \/ CbApply(p)
       \/ StopGame(p)
       \/ StApply(p)
       \/ ResetGame(p)
       \/ RgApply(p)
       \/ CheckAndCleanupStaleGame(p)
       \/ CsApply(p)
       \/ Done(p)
  \/ Tick
  \/ SetTimer
  \/ TimerExpire

Spec == Init /\ [][Next]_vars

\* SpecPlay: one game played out, one handler at a time.  The commands of
\* the lobby arrive while the lobby is open and the game starts at once.
NextPlay ==
  \/ \E p \in SeqProcs :
       \/ MayPlay /\ game = NoGame /\ \E u \in Users : StartGame(p, u, EntryFee)
       \/ StartGameSteps(p)
       \/ InLobby /\ \E u \in Users : JoinGame(p, u)
       \/ JoinGameSteps(p)
       \/ InLobby /\ BeginGame(p)
       \/ BeginGameSteps(p)
       \/ InPlay /\ \E u \in Users : DrawCardForPlayer(p, u)
       \/ DcRead(p)
       \/ DcDraw(p)
       \/ DcWrite(p)
       \/ DcUnlock(p)
       \/ AutoDrawForTimeout(p)
       \/ AdLoop(p)
       \/ AdWrite(p)
       \/ TallyRound(p)
       \/ TrWrite(p)
       \/ FgPay(p)
       \/ FgCleanup(p)
       \/ InPlay /\ ResetGame(p)
       \/ RgApply(p)
       \/ Done(p)
  \/ InPlay /\ Tick

SpecPlay == Init /\ [][NextPlay]_vars

\* SpecRace: the lobby commands of several processes (replicas, the poller,
\* player commands), their steps interleaved, and the locks' TTL.  User 1
\* starts the game; every user joins and cancels.
NextRace ==
  \/ \E p \in Procs :
       \/ MayCall /\ MayPlay /\ StartGame(p, 1, EntryFee)
       \/ StartGameSteps(p)
       \/ MayCall /\ \E u \in Users : JoinGame(p, u)
       \/ JgLock(p)
       \/ JoinGameSteps(p)
       \/ MayCall /\ BeginGame(p)
       \/ BgLock(p)
       \/ BeginGameSteps(p)
       \/ MayCall /\ \E u \in Users : CancelByStarter(p, u)
       \/ CbApply(p)
       \/ DoneCounted(p)
  \/ \E k \in LockKeys : LockExpire(k)

SpecRace == Init /\ [][NextRace]_vars

\* SpecRoom: the bot record and the timer key of the room around one game,
\* one handler at a time.
NextRoom ==
  \/ \E p \in SeqProcs :
       \/ MayPlay /\ \E u \in Users : StartGame(p, u, EntryFee)
       \/ StartGameSteps(p)
       \/ \E u \in Users : JoinGame(p, u)
       \/ JoinGameSteps(p)
       \/ BeginGame(p)
       \/ BeginGameSteps(p)
       \/ AddBotToRoom(p)
       \/ RemoveBotFromRoom(p)
       \/ RbApply(p)
       \/ Done(p)
  \/ SetTimer
  \/ TimerExpire

SpecRoom == Init /\ [][NextRoom]_vars

\* SpecRestart: a game of the room, one handler at a time, until the service
\* restarts (at any point of a handler) and runs restart recovery, then runs
\* it again.
NextRestart ==
  \E p \in SeqProcs :
    \/ runs = 0 /\ MayPlay /\ \E u \in Users : StartGame(p, u, EntryFee)
    \/ StartGameSteps(p)
    \/ runs = 0 /\ InLobby /\ \E u \in Users : JoinGame(p, u)
    \/ JoinGameSteps(p)
    \/ runs = 0 /\ InLobby /\ BeginGame(p)
    \/ BeginGameSteps(p)
    \/ runs = 0 /\ InPlay /\ AutoDrawForTimeout(p)
    \/ AdLoop(p)
    \/ AdWrite(p)
    \/ runs = 0 /\ InPlay /\ TallyRound(p)
    \/ TrWrite(p)
    \/ FgPay(p)
    \/ FgCleanup(p)
    \/ runs = 0 /\ Restart(p)
    \/ runs \in 1..(MaxRuns - 1) /\ HandleRestartRefunds(p)
    \/ HrKeys(p)
    \/ HrGet(p)
    \/ HrRefund(p)
    \/ HrDel(p)
    \/ Done(p)

SpecRestart == Init /\ [][NextRestart]_vars

\* SpecFault: the lobby, one handler at a time, where a call to the keyed
\* store or the database made after a deduction may fail.
NextFault ==
  \E p \in SeqProcs :
    \/ MayStart /\ MayBet /\ \E u \in Users : StartGame(p, u, EntryFee)
    \/ StartGameSteps(p)
    \/ SgWriteFails(p)
    \/ SgThrows(p)
    \/ \E u \in Users : JoinGame(p, u)
    \/ JoinGameSteps(p)
    \/ JgThrows(p)
    \/ BeginGame(p)
    \/ BeginGameSteps(p)
    \/ \E u \in Users : CancelByStarter(p, u)
    \/ CbApply(p)
    \/ Done(p)

SpecFault == Init /\ [][NextFault]_vars

\* SpecDraw: a game set up by process 1, one handler at a time, and then
\* the draw commands of the players handled by several processes at once.
NextDraw ==
  \/ \E p \in SeqProcs :
       \/ MayPlay /\ game = NoGame /\ StartGame(p, 1, EntryFee)
       \/ StartGameSteps(p)
       \/ InLobby /\ \E u \in Users : JoinGame(p, u)
       \/ JoinGameSteps(p)
       \/ InLobby /\ BeginGame(p)
       \/ BeginGameSteps(p)
  \/ \E p \in Procs :
       \/ InPlay /\ \E u \in Users : DrawCardForPlayer(p, u)
       \/ DcLock(p)
       \/ DcRead(p)
       \/ DcDraw(p)
       \/ DcWrite(p)
       \/ DcUnlock(p)
       \/ Done(p)
  \/ InPlay /\ Tick

SpecDraw == Init /\ [][NextDraw]_vars

\* SpecPhase: the phase transitions of a game, one handler at a time: the
\* game is set up, beginGame is called whenever a game exists, and the timer
\* poller deals the cards of a round and tallies it, any number of times.
NextPhase ==
  \E p \in Procs :
    \/ (\A q \in Procs \ {p} : proc[q].pc \in {"idle", "done"}) /\
         \/ MayPlay /\ game = NoGame /\ StartGame(p, 1, EntryFee)
         \/ InLobby /\ \E u \in Users : JoinGame(p, u)
         \/ game # NoGame /\ BeginGame(p)
         \/ InPlay /\ AutoDrawForTimeout(p)
         \/ started > 0 /\ TallyRound(p)
    \/ StartGameSteps(p)
    \/ JoinGameSteps(p)
    \/ BeginGameSteps(p)
    \/ AdLoop(p)
    \/ AdWrite(p)
    \/ TrWrite(p)
    \/ FgPay(p)
    \/ FgCleanup(p)
    \/ Done(p)

SpecPhase == Init /\ [][NextPhase]_vars

\* SpecStart: startGame called for two users by several processes at once while
\* the timer poller calls beginGame on the lobby nobody else has joined; no lock
\* key's TTL runs out.
NextStart ==
  \E p \in Procs :
    \/ MayCall /\ MayStart /\ \E u \in {1, 2} : StartGame(p, u, EntryFee)
    \/ StartGameSteps(p)
    \/ MayCall /\ InLobby /\ BeginGame(p)
    \/ BgLock(p)
    \/ BgRead(p)
    \/ BgCancel(p)
    \/ BgUnlock(p)
    \/ DoneCounted(p)

SpecStart == Init /\ [][NextStart]_vars

\* SpecLedger: the ledger called for any user by several callers at once, their
\* steps interleaved.
NextLedger ==
  \E p \in Procs :
    \/ MayCall /\ \E u \in Users : \E amount \in {EntryFee, 2 * EntryFee} :
         DeductCreditsCall(p, u, amount)
    \/ DdRead(p)
    \/ DdUpdate(p)
    \/ DdCache(p)
    \/ MayCall /\ \E u \in Users : AddCreditsCall(p, u, EntryFee)
    \/ AcCache(p)
    \/ DoneCounted(p)

SpecLedger == Init /\ [][NextLedger]_vars

\* the subscriber: commands arrive on game:command for any room and their
\* handlers settle in any order
NextSubscriber ==
  \/ \E r \in Rooms : EnqueueCommand(r)
  \/ \E r \in Rooms : \E c \in 1..MaxCommands : HandlerSettles(r, c)

SpecSubscriber == Init /\ [][NextSubscriber]_vars

\* the subscriber with handlers that settle: a handler that is awaited is not
\* awaited for ever (its promise resolves or rejects)
SpecSubscriberFair ==
  /\ Init
  /\ [][NextSubscriber]_vars
  /\ \A r \in Rooms : \A c \in 1..MaxCommands : WF_vars(HandlerSettles(r, c))

\* the command router: commands are routed on either path, for every active
\* game type, every bot key and every answer of the handlers
NextRouter ==
  \/ \E m \in Messages : \E a \in GameTypes : \E h \in [Handlers -> BOOLEAN] :
       \E keys \in [dicebot : BOOLEAN, lowcard : BOOLEAN, flagbot : BOOLEAN] :
          HandleGameCommand(m, a, h, keys)
  \/ \E m \in Messages : \E a \in GameTypes : \E h \in [Handlers -> BOOLEAN] :
       CommandHandler(m, a, h)

SpecRouter == Init /\ [][NextRouter]_vars

\* SpecDeal: a game set up by process 1, one handler at a time, and then the
\* cards of its first round: process 1 is the timer poller and runs
\* autoDrawForTimeout once the countdown is over, while the other processes
\* handle the draw commands of the players, their steps interleaved.
NextDeal ==
  \/ \E p \in SeqProcs :
       \/ MayPlay /\ game = NoGame /\ StartGame(p, 1, EntryFee)
       \/ StartGameSteps(p)
       \/ InLobby /\ \E u \in Users : JoinGame(p, u)
       \/ JoinGameSteps(p)
       \/ InLobby /\ BeginGame(p)
       \/ BeginGameSteps(p)
       \/ InPlay /\ game.countdownEndsAt <= now /\ AutoDrawForTimeout(p)
       \/ AdLoop(p)
       \/ AdWrite(p)
  \/ \E p \in Procs \ SeqProcs :
       \/ InPlay /\ \E u \in Users : DrawCardForPlayer(p, u)
       \/ DcRead(p)
       \/ DcDraw(p)
       \/ DcWrite(p)
       \/ DcUnlock(p)
  \/ \E p \in Procs : Done(p)
  \/ InPlay /\ Tick

SpecDeal == Init /\ [][NextDeal]_vars

\* SpecFinish: a game played to its end by process 1, one handler at a time,
\* its cards dealt by the poller, while the draw command of a player may reach
\* another process when finishGame is at work.  The event layer sets the
\* room's timer key for the phases of the game in play.
NextFinish ==
  \/ \E p \in SeqProcs :
       \/ MayPlay /\ game = NoGame /\ StartGame(p, 1, EntryFee)
       \/ StartGameSteps(p)
       \/ InLobby /\ \E u \in Users : JoinGame(p, u)
       \/ JoinGameSteps(p)
       \/ InLobby /\ BeginGame(p)
       \/ BeginGameSteps(p)
       \/ InPlay /\ AutoDrawForTimeout(p)
       \/ AdLoop(p)
       \/ AdWrite(p)
       \/ InPlay /\ TallyRound(p)
       \/ TrWrite(p)
       \/ FgPay(p)
       \/ FgCleanup(p)
  \/ \E p \in Procs \ SeqProcs :
       (\E q \in SeqProcs : proc[q].pc \in {"fg_pay", "fg_cleanup"}) /\
         \E u \in Users : DrawCardForPlayer(p, u)
  \/ \E p \in Procs :
       \/ DcRead(p)
       \/ DcUnlock(p)
       \/ Done(p)
  \/ InPlay /\ SetTimer
  \/ TimerExpire

SpecFinish == Init /\ [][NextFinish]_vars

\* SpecTally: a game set up and dealt one handler at a time; the pollers of
\* several replicas (or a poller and the handler of the last draw) then call
\* tallyRound on the round, the steps of these calls interleaved.  The event
\* layer sets the room's timer key.
NextTally ==
  \/ \E p \in Procs :
       \/ (\A q \in Procs \ {p} : proc[q].pc \in {"idle", "done"}) /\
            \/ MayPlay /\ game = NoGame /\ StartGame(p, 1, EntryFee)
            \/ InLobby /\ \E u \in Users : JoinGame(p, u)
            \/ InLobby /\ BeginGame(p)
            \/ InPlay /\ AutoDrawForTimeout(p)
       \/ StartGameSteps(p)
       \/ JoinGameSteps(p)
       \/ BeginGameSteps(p)
       \/ AdLoop(p)
       \/ AdWrite(p)
       \/ (\A q \in Procs \ {p} : proc[q].pc \in {"idle", "done", "tr_write", "fg_pay", "fg_cleanup"}) /\
            InPlay /\ TallyRound(p)
       \/ TrWrite(p)
       \/ FgPay(p)
       \/ FgCleanup(p)
       \/ Done(p)
  \/ SetTimer
  \/ TimerExpire

SpecTally == Init /\ [][NextTally]_vars

\* SpecTable: one game played out, one handler at a time, where a draw command
\* may arrive at any moment: before a game exists, in the lobby, during the
\* countdown, in a round and after the game.
NextTable ==
  \/ \E p \in SeqProcs :
       \/ MayPlay /\ game = NoGame /\ StartGame(p, 1, EntryFee)
       \/ StartGameSteps(p)
       \/ InLobby /\ \E u \in Users : JoinGame(p, u)
       \/ JoinGameSteps(p)
       \/ InLobby /\ BeginGame(p)
       \/ BeginGameSteps(p)
       \/ \E u \in Users : DrawCardForPlayer(p, u)
       \/ DcRead(p)
       \/ DcDraw(p)
       \/ DcWrite(p)
       \/ DcUnlock(p)
       \/ InPlay /\ AutoDrawForTimeout(p)
       \/ AdLoop(p)
       \/ AdWrite(p)
       \/ InPlay /\ TallyRound(p)
       \/ TrWrite(p)
       \/ FgPay(p)
       \/ FgCleanup(p)
       \/ Done(p)
  \/ InPlay /\ Tick

SpecTable == Init /\ [][NextTable]_vars

\* SpecCancel: a lobby opened by user 1, one handler at a time, and then the
\* join commands of the other users handled by several processes while the
\* starter cancels the game or an admin stops it; no lock key's TTL runs out
\* and no two cancellations overlap.
NextCancel ==
  \E p \in Procs :
    \/ (\A q \in Procs \ {p} : proc[q].pc \in {"idle", "done"}) /\
         MayPlay /\ game = NoGame /\ StartGame(p, 1, EntryFee)
    \/ StartGameSteps(p)
    \/ (\A q \in Procs : proc[q].op # "startGame") /\ InLobby /\
         \E u \in Users \ {1} : JoinGame(p, u)
    \/ JgLock(p)
    \/ JoinGameSteps(p)
    \/ (\A q \in Procs : proc[q].op # "startGame" /\ proc[q].pc \notin {"cb_apply", "st_apply"}) /\
       InLobby /\
         \/ CancelByStarter(p, 1)
         \/ StopGame(p)
    \/ CbApply(p)
    \/ StApply(p)
    \/ Done(p)

SpecCancel == Init /\ [][NextCancel]_vars

\* SpecRounds: a game set up by process 1, one handler at a time, and then its
\* rounds: process 1 is the timer poller, which deals the missing cards once
\* the countdown is over and tallies the round when every player in scope has
\* a card, while the other processes handle the draw commands of the players.
\* The players join in the order of their ids.  The steps of a draw command
\* interleave with those of the poller; a run has one draw command.
NextRounds ==
  \/ \E p \in SeqProcs :
       \/ MayPlay /\ game = NoGame /\ StartGame(p, 1, EntryFee)
       \/ StartGameSteps(p)
       \/ InLobby /\ \E u \in Users : u = Len(game.players) + 1 /\ JoinGame(p, u)
       \/ JoinGameSteps(p)
       \/ InLobby /\ BeginGame(p)
       \/ BeginGameSteps(p)
       \/ InPlay /\ game.countdownEndsAt <= now /\ AutoDrawForTimeout(p)
       \/ AdLoop(p)
       \/ AdWrite(p)
       \/ InPlay /\ game.countdownEndsAt <= now /\ NextAutoDraw(game, 1) = 0 /\ TallyRound(p)
       \/ TrWrite(p)
       \/ FgPay(p)
       \/ FgCleanup(p)
  \/ \E p \in Procs \ SeqProcs :
       \/ calls = 0 /\ InPlay /\ \E u \in PlayerIds(game) : DrawCardForPlayer(p, u)
       \/ DcRead(p)
       \/ DcDraw(p)
       \/ DcWrite(p)
       \/ DcUnlock(p)
       \/ DoneCounted(p)
  \/ \E p \in SeqProcs : Done(p)
  \/ InPlay /\ Tick

SpecRounds == Init /\ [][NextRounds]_vars

\* ================================================================ claims
\* the signed change of user u's balance (regular and tagged credits) since
\* u's last bet
Delta(u) == (credits[u] + tagged[u]) - (base[u].credits + base[u].tagged)

RECURSIVE SumDeltas(_, _)
SumDeltas(players, i) ==
  IF i > Len(players) THEN 0
  ELSE Delta(players[i].userId) + SumDeltas(players, i + 1)

\* process p has finished a game with a winner
GameOver(p) == proc[p].ret.res = "gameOver" /\ proc[p].ret.winner # 0

\* no process is inside an operation
Quiet == \A p \in Procs : proc[p].pc \in {"idle", "done"}

\* C1: once an operation has removed the room's snapshot and no operation
\* is under way, no player is left with an entry that was deducted and
\* neither refunded nor settled by a finished game.
C1_NoDebitLeft == (game = NoGame /\ Quiet) => \A u \in Users : stake[u] = 0

\* C2: when a game finishes, every player's balance has changed by
\* -entryAmount, the winner's by -entryAmount + pot - houseFee, and the
\* changes of all the players add up to -houseFee.
C2_FinishedGameDeltas ==
  \A p \in Procs :
    GameOver(p) =>
      LET r == proc[p].ret
          g == r.g
      IN /\ \A i \in 1..Len(g.players) :
              Delta(g.players[i].userId) =
                IF g.players[i].userId = r.winner
                  THEN g.pot - HouseFee(g.pot) - g.entryAmount
                  ELSE 0 - g.entryAmount
         /\ SumDeltas(g.players, 1) = 0 - HouseFee(g.pot)

\* C2 witness: a game of three players has finished with a winner
C2_Witness ==
  \E p \in Procs : IsDone(p) /\ GameOver(p) /\ Len(proc[p].ret.g.players) = 3

\* the commission finishGame owes for game g
CommissionDue(g) == IF g.startedBy \in merchantTag THEN HouseFee(g.pot) \div 10 ELSE 0

\* the players' changes of balance after the step
RECURSIVE SumDeltasNext(_, _)
SumDeltasNext(players, i) ==
  IF i > Len(players) THEN 0
  ELSE (credits'[players[i].userId] + tagged'[players[i].userId])
       - (base'[players[i].userId].credits + base'[players[i].userId].tagged)
       + SumDeltasNext(players, i + 1)

\* C3 (as amended): when finishGame pays, the players' changes of balance
\* plus houseFee are 0, and the merchant's income grows by the commission
\* floor(houseFee / 10) (0 without a merchant tag), which is part of the
\* house fee and not added to it.
C3_CommissionOutOfFee ==
  [][\A p \in Procs :
       (proc[p].pc = "fg_pay" /\ proc'[p].pc = "fg_cleanup" /\ proc'[p].ret.winner # 0) =>
         LET g == proc[p].g
         IN /\ SumDeltasNext(g.players, 1) + HouseFee(g.pot) = 0
            /\ merchantIncome' - merchantIncome = CommissionDue(g)
            /\ CommissionDue(g) <= HouseFee(g.pot)]_vars

\* C3 witness: a finished game has paid a commission
C3_Witness ==
  \E p \in Procs : GameOver(p) /\ proc[p].ret.commission > 0 /\ merchantIncome > 0

\* C3 as stated: for a finished game the players' changes of balance plus
\* houseFee plus the commission paid are 0.
C3_ConservationWithCommission ==
  \A p \in Procs :
    GameOver(p) =>
      SumDeltas(proc[p].ret.g.players, 1) + proc[p].ret.houseFee + proc[p].ret.commission = 0

\* the operations that end a game by refunding it
RefundingOps == {"cancelByStarter", "stopGame", "resetGame", "beginGame"}

\* C4: after cancelByStarter, stopGame or resetGame has succeeded, or
\* beginGame has cancelled the game, every player of that game has the
\* balance they had before they started or joined it.
C4_RefundExact ==
  \A p \in Procs :
    (IsDone(p) /\ proc[p].ret.op \in RefundingOps /\ proc[p].ret.g # NoGame) =>
      \A i \in 1..Len(proc[p].ret.g.players) : Delta(proc[p].ret.g.players[i].userId) = 0

\* C5: a step of a process that removes a lock key removes a key that
\* process holds (the TTL's expiry is no step of a process).
C5_LockDeletedByOwner ==
  [][\A k \in LockKeys, p \in Procs :
       (lock[k] # 0 /\ lock'[k] = 0 /\ proc'[p] # proc[p]) => lock[k] = p]_vars

\* process p is in joinGame for user u and has deducted the entry
JoinDeducted(p, u) ==
  proc[p].op = "joinGame" /\ proc[p].user = u /\ proc[p].ded > 0

\* C6: of two joinGame calls under way for the same user, at most one has
\* deducted the entry.
C6_OneDeduction ==
  \A p, q \in Procs, u \in Users :
    p # q => ~(JoinDeducted(p, u) /\ JoinDeducted(q, u))

\* C7: in the stored snapshot every userId appears at most once in players.
C7_NoDuplicatePlayer ==
  game # NoGame => Cardinality(PlayerIds(game)) = Len(game.players)

\* C7 witness: two joinGame calls for the same user have both gone past the
\* test of players and the user is in the stored snapshot
C7_Witness ==
  /\ game # NoGame
  /\ \E p, q \in Procs, u \in Users :
       /\ p # q
       /\ JoinDeducted(p, u) /\ JoinDeducted(q, u)
       /\ u \in PlayerIds(game)

\* C8: in the stored snapshot pot = entryAmount * |players|.
C8_PotIsEntryTimesPlayers ==
  game # NoGame => game.pot = game.entryAmount * Len(game.players)

\* C8 witness: a game of three players in its second round or later
C8_Witness ==
  /\ game # NoGame
  /\ game.status = "playing"
  /\ Len(game.players) = 3
  /\ game.currentRound >= 2

\* C9: a stored snapshot with status playing is not replaced by one with
\* another status.
C9_StatusNeverBackward ==
  [][(game # NoGame /\ game.status = "playing" /\ game' # NoGame) =>
       game'.status = "playing"]_vars

\* process q is between its read of the snapshot and its write
InReadModifyWrite(q) ==
  proc[q].pc \in {"sg_deduct", "sg_write", "jg_deduct", "jg_write",
                  "bg_cancel", "bg_deck", "bg_write", "cb_apply"}

\* C10: beginGame changes the stored snapshot only while it holds
\* lowcard:joinlock, and no process writes or deletes the snapshot while
\* another process is between its read and its write.
C10_MutationUnderLock ==
  [][\A p \in Procs :
       (proc'[p] # proc[p] /\ game' # game) =>
         /\ proc[p].op = "beginGame" => lock["joinlock"] = p
         /\ \A q \in Procs \ {p} : ~InReadModifyWrite(q)]_vars

\* C11: restart recovery is idempotent.  Once a run of handleRestartRefunds
\* has completed, a further run in a row changes no user's durable credits
\* and writes no credit log row: the second run refunds nobody.
C11_SecondRunRefundsNobody ==
  [][runs >= 1 => (credits' = credits /\ refundLog' = refundLog)]_vars

\* C11 witness: two runs have completed, the first of which refunded the
\* players of a game it found.
C11_Witness == runs = 2 /\ \E u \in Users : refundLog[u] = 1

\* C12: the sweep of handleRestartRefunds credits every recorded player of a
\* waiting or playing game entryAmount exactly once, with one game_refund log
\* row, and removes the player's cached balance key; nobody else is credited;
\* when the sweep returns the game key and the deck key are gone.
C12_RestartRefundsEachPlayerOnce ==
  [][\A p \in Procs :
       /\ (proc[p].pc = "hr_refund" /\ proc'[p].pc = "hr_del") =>
            LET g == proc[p].g
                inFlight == g # NoGame /\ g.status \in {"waiting", "playing"}
            IN \A u \in Users :
                 IF inFlight /\ u \in PlayerIds(g)
                   THEN /\ credits'[u] = credits[u] + g.entryAmount
                        /\ refundLog'[u] = refundLog[u] + 1
                        /\ cache'[u] = NoCache
                   ELSE /\ credits'[u] = credits[u]
                        /\ refundLog'[u] = refundLog[u]
       /\ (proc[p].pc = "hr_del" /\ proc'[p].pc = "done") =>
            (game' = NoGame /\ ~deck'.exists)]_vars

\* C12 witness: the sweep has returned after refunding the three players of
\* a game in play, one of them eliminated.
C12_Witness ==
  \E p \in Procs :
    /\ IsDone(p)
    /\ proc[p].ret.op = "handleRestartRefunds"
    /\ proc[p].ret.g # NoGame
    /\ proc[p].ret.g.status = "playing"
    /\ Len(proc[p].ret.g.players) = 3
    /\ \E i \in 1..3 : proc[p].ret.g.players[i].isEliminated
    /\ \A u \in Users : refundLog[u] = 1 /\ cache[u] = NoCache
    /\ game = NoGame

\* the exits of startGame that follow a deduction and report a failure
FailedStartExits == {"write_failed", "verify_failed", "exception"}

\* C13: when startGame leaves by a failing exit after its deduction (the
\* write answered nothing, the read-back found no snapshot, a later step
\* threw), the starter's balance is what it was before the call.
C13_FailedStartNetZero ==
  \A p \in Procs :
    (proc[p].pc = "sg_unlock" /\ proc[p].ret.res \in FailedStartExits) =>
      Delta(proc[p].user) = 0

\* C14: a joinGame that has deducted the entry and then fails returns with
\* the user's balance unchanged.
C14_FailedJoinNetZero ==
  \A p \in Procs :
    (proc[p].pc = "jg_unlock" /\ proc[p].ded > 0 /\ proc[p].ret.res # "ok") =>
      Delta(proc[p].user) = 0

\* C15: a startGame called with amount 0 or a negative amount deducts
\* nothing and creates no snapshot; unless a game in progress turns it away
\* first, it is rejected with the "minimal" message.
C15_ZeroOrNegativeRejected ==
  \A p \in Procs :
    (proc[p].op = "startGame" /\ proc[p].amount <= 0) =>
      /\ proc[p].ded = 0
      /\ proc[p].pc \notin {"sg_write", "sg_verify"}
      /\ proc[p].pc = "sg_unlock" => proc[p].ret.res \in {"minimal", "in_progress"}

\* C16: a joinGame that reads the snapshot when the current time is strictly
\* after joinDeadline is rejected: nothing is deducted, the snapshot keeps
\* its players and its pot, and the return changes nothing either.
C16_LateJoinRejected ==
  [][\A p \in Procs :
       /\ (/\ proc[p].pc = "jg_read"
           /\ game # NoGame
           /\ now > game.joinDeadline
           /\ proc'[p].pc # proc[p].pc) =>
            /\ proc'[p].pc = "jg_unlock"
            /\ proc'[p].ret.res \in {"not_waiting", "deadline"}
            /\ proc'[p].ded = 0
            /\ credits' = credits /\ tagged' = tagged /\ game' = game
       /\ (/\ proc[p].pc = "jg_unlock"
           /\ proc[p].ret.res \in {"not_waiting", "deadline"}
           /\ proc'[p].pc # proc[p].pc) =>
            (credits' = credits /\ tagged' = tagged /\ game' = game)]_vars

\* C16 witness: a joinGame has returned "Join period has ended" for a
\* waiting game whose deadline has passed; the caller is not a player.
C16_Witness ==
  \E p \in Procs :
    /\ IsDone(p)
    /\ proc[p].ret.op = "joinGame"
    /\ proc[p].ret.res = "deadline"
    /\ game # NoGame
    /\ game.status = "waiting"
    /\ now > game.joinDeadline
    /\ proc[p].ret.user \notin PlayerIds(game)
    /\ stake[proc[p].ret.user] = 0

\* a game in progress that is not stuck: playing, or waiting with a timer or
\* created no more than 40 s ago
NotStuckInProgress(g, tm, t) ==
  /\ g # NoGame
  /\ \/ g.status = "playing"
     \/ g.status = "waiting" /\ (tm \/ t - g.createdAt <= STUCK_GAME_AGE)

\* the steps by which startGame turns its caller away: the stale test cleans
\* nothing, the test of the existing game answers "game in progress", and
\* nobody is debited nor the snapshot touched
StartTurnedAway(p) ==
  /\ (proc[p].pc = "sg_stale" /\ proc'[p].pc # proc[p].pc) =>
       /\ proc'[p].pc = "sg_read"
       /\ game' = game /\ credits' = credits /\ tagged' = tagged
  /\ (proc[p].pc = "sg_read" /\ proc'[p].pc # proc[p].pc) =>
       /\ proc'[p].pc = "sg_unlock"
       /\ proc'[p].ret.res = "in_progress"
       /\ proc'[p].ded = 0
       /\ game' = game /\ credits' = credits /\ tagged' = tagged

\* the return of a startGame turned away changes neither balances nor snapshot
TurnedAwayReturn(p) ==
  (proc[p].pc = "sg_unlock" /\ proc[p].ret.res = "in_progress" /\ proc'[p].pc # proc[p].pc) =>
    (game' = game /\ credits' = credits /\ tagged' = tagged)

\* C17 (as amended): startGame in a room whose game is in progress, not stuck
\* and not stale (waiting past joinDeadline + 120 s) is rejected; the caller
\* is not debited and the snapshot, its players and its pot are unchanged.
C17_SecondStartRejectedUnlessStale ==
  [][\A p \in Procs :
       /\ (NotStuckInProgress(game, timer, now) /\ ~IsStale(game, now)) => StartTurnedAway(p)
       /\ TurnedAwayReturn(p)]_vars

\* C17 witness: startGame has answered "game in progress" for a waiting game
\* older than 40 s that has a timer; the caller is not among its players.
C17_Witness ==
  \E p \in Procs :
    /\ proc[p].pc = "sg_unlock"
    /\ proc[p].ret.res = "in_progress"
    /\ game # NoGame
    /\ game.status = "waiting"
    /\ timer
    /\ now - game.createdAt > STUCK_GAME_AGE
    /\ proc[p].user \notin PlayerIds(game)
    /\ stake[proc[p].user] = 0

\* C17 (as stated): startGame in a room whose game is in progress and not
\* stuck is rejected, whatever the age of the game.
C17_SecondStartRejected ==
  [][\A p \in Procs :
       /\ NotStuckInProgress(game, timer, now) => StartTurnedAway(p)
       /\ TurnedAwayReturn(p)]_vars

\* C18: startGame treats a game as stuck only when it is waiting, has no
\* timer and was created more than 40 s ago; it then refunds entryAmount to
\* every player of that game exactly once, deletes the snapshot and the deck
\* and goes on to the caller's own game.
C18_StuckGameCleaned ==
  [][\A p \in Procs :
       /\ (proc[p].pc = "sg_read" /\ proc'[p].pc = "sg_stuck") =>
            /\ ~timer
            /\ game.status = "waiting"
            /\ now - game.createdAt > STUCK_GAME_AGE
       /\ (proc[p].pc = "sg_stuck" /\ proc'[p].pc # proc[p].pc) =>
            /\ proc'[p].pc = "sg_stuck_del"
            /\ \A u \in Users :
                 credits'[u] = credits[u] +
                   (IF u \in PlayerIds(proc[p].g) THEN proc[p].g.entryAmount ELSE 0)
       /\ (proc[p].pc = "sg_stuck_del" /\ proc'[p].pc # proc[p].pc) =>
            /\ game' = NoGame
            /\ deck' = NoDeck
            /\ proc'[p].pc = "sg_deduct"]_vars

\* C18 witness: startGame has refunded the two or more players of a stuck
\* game and is about to delete its keys.
C18_Witness ==
  \E p \in Procs :
    /\ proc[p].pc = "sg_stuck_del"
    /\ Len(proc[p].g.players) >= 2
    /\ ~timer
    /\ \A u \in PlayerIds(proc[p].g) : stake[u] = 0

\* C19: cancelByStarter goes on to its refunds only for a waiting game whose
\* startedBy is the caller; any other call returns a rejection and leaves the
\* snapshot, the deck, timer and lock keys and every balance as they were.
C19_CancelOnlyByStarterWhileWaiting ==
  [][\A p \in Procs :
       /\ (proc[p].pc = "idle" /\ proc'[p].pc = "cb_apply") =>
            /\ game # NoGame
            /\ game.status = "waiting"
            /\ game.startedBy = proc'[p].user
       /\ (/\ proc[p].pc = "idle"
           /\ proc'[p].pc = "done"
           /\ proc'[p].ret.op = "cancelByStarter") =>
            /\ \/ game = NoGame
               \/ game.status # "waiting"
               \/ game.startedBy # proc'[p].ret.user
            /\ proc'[p].ret.res \in {"silent", "not_waiting", "not_starter"}
            /\ game' = game /\ deck' = deck /\ timer' = timer /\ lock' = lock
            /\ credits' = credits /\ tagged' = tagged /\ cache' = cache
       /\ (proc[p].pc = "cb_apply" /\ proc'[p].pc = "done") =>
            proc'[p].ret.res = "ok"]_vars

\* C19 witness: a player who joined but did not start the waiting game has
\* called cancelByStarter and been told that only the starter can cancel.
C19_Witness ==
  \E p \in Procs :
    /\ IsDone(p)
    /\ proc[p].ret.op = "cancelByStarter"
    /\ proc[p].ret.res = "not_starter"
    /\ game # NoGame
    /\ game.status = "waiting"
    /\ proc[p].ret.user \in PlayerIds(game)
    /\ stake[proc[p].ret.user] = game.entryAmount

\* C20: beginGame on a waiting game of fewer than 2 players refunds
\* entryAmount to every player, deletes the game, deck and timer keys and
\* answers "cancelled"; no snapshot is ever written with status playing and
\* fewer than 2 players.
C20_BeginWithoutEnoughPlayers ==
  [][\A p \in Procs :
       /\ (/\ proc[p].pc = "bg_read"
           /\ game # NoGame
           /\ game.status = "waiting"
           /\ Len(game.players) < 2
           /\ proc'[p].pc # proc[p].pc) =>
            proc'[p].pc = "bg_cancel"
       /\ (proc[p].pc = "bg_cancel" /\ proc'[p].pc # proc[p].pc) =>
            /\ \A u \in Users :
                 credits'[u] = credits[u] +
                   (IF u \in PlayerIds(proc[p].g) THEN proc[p].g.entryAmount ELSE 0)
            /\ game' = NoGame
            /\ ~deck'.exists
            /\ timer' = FALSE
            /\ proc'[p].ret.res = "cancelled"
       /\ (game' # NoGame /\ game'.status = "playing") => Len(game'.players) >= 2]_vars

\* C20 witness: beginGame has cancelled a game that only its starter had
\* entered: the starter is refunded and the keys are gone.
C20_Witness ==
  \E p \in Procs :
    /\ proc[p].pc = "bg_unlock"
    /\ proc[p].ret.res = "cancelled"
    /\ Len(proc[p].ret.g.players) = 1
    /\ stake[proc[p].ret.g.startedBy] = 0
    /\ Delta(proc[p].ret.g.startedBy) = 0
    /\ game = NoGame
    /\ ~timer

\* C21: a player command that gives up on its lock (startGame, joinGame,
\* drawCardForPlayer) returns a rejection that is not silent.
C21_BusyIsNotSilent ==
  \A p \in Procs :
    (IsDone(p) /\ proc[p].ret.res = "busy") => ~Silent(proc[p].ret.op, proc[p].ret.res)

IsPrefix(s, t) == Len(s) <= Len(t) /\ \A i \in 1..Len(s) : s[i] = t[i]

\* C22: the commands of one room are handed to the handler in the order they
\* arrived, every command handed over and not in flight has settled before the
\* next one is handed over, and a room never has two handlers in flight.
C22_RoomCommandsSerialized ==
  \A r \in Rooms :
    /\ IsPrefix(handled[r], arrived[r])
    /\ Cardinality(awaited[r]) <= 1
    /\ \A c \in awaited[r] : Len(handled[r]) > 0 /\ c = handled[r][Len(handled[r])]

\* two rooms have a handler in flight at once and one of them has a command
\* waiting behind the one in flight
C22_Witness ==
  \E r1, r2 \in Rooms :
    /\ r1 # r2
    /\ awaited[r1] # {} /\ awaited[r2] # {}
    /\ Len(roomQueues[r1].items) > 0 /\ roomQueues[r1].processing

\* C23: the draw command '!d' reaches the LowCard handler only when the room's
\* active game type is lowcard and reaches no handler otherwise, on the socket
\* path and on the pub/sub path.
C23_DrawCommandScoped ==
  dispatched.message = "!d" =>
    dispatched.calls = (IF dispatched.active = "lowcard" THEN <<"lowcard">> ELSE <<>>)

\* beginGame's early return: no snapshot, or a game that is not waiting
BeginFindsNothingToDo(g) == g = NoGame \/ g.status # "waiting"

\* tallyRound's early returns: no snapshot, or nobody in scope holds a card
TallyFindsNothingToDo(g) == g = NoGame \/ CurrentHandsPlayers(g) = <<>>

\* C24: the phase transitions are idempotent.  The state beginGame leaves when
\* it has moved the game to playing, and the state tallyRound leaves when it
\* has resolved a round, are states in which the same call finds nothing to do;
\* and a call that finds nothing to do leaves the snapshot, the deck and the
\* balances as they are.
C24_PhaseTransitionsIdempotent ==
  [][\A p \in Procs :
       /\ (proc[p].pc # "done" /\ proc'[p].pc = "done" /\ proc'[p].ret.op = "beginGame"
             /\ proc'[p].ret.res = "started")
            => BeginFindsNothingToDo(game')
       /\ (proc[p].pc # "done" /\ proc'[p].pc = "done" /\ proc'[p].ret.op = "tallyRound"
             /\ proc'[p].ret.res \in {"eliminated", "tie", "gameOver"})
            => TallyFindsNothingToDo(game')
       /\ (proc'[p].pc # proc[p].pc /\ BeginFindsNothingToDo(game)
             /\ (proc[p].op = "beginGame" \/ proc'[p].op = "beginGame"))
            => UNCHANGED <<game, deck, credits, tagged, cache, merchantIncome>>
       /\ (IsIdle(p) /\ ~IsIdle(p)' /\ TallyFindsNothingToDo(game)
             /\ (proc'[p].op = "tallyRound" \/ proc'[p].ret.op = "tallyRound"))
            => /\ IsDone(p)'
               /\ proc'[p].ret.res \in {"null", "error"}
               /\ UNCHANGED <<game, deck, credits, tagged, cache, merchantIncome>>]_vars

\* a second beginGame has returned from a game in play, and a second tallyRound
\* has returned from the round an earlier tallyRound opened
C24_Witness ==
  \E p, q \in Procs :
    /\ IsDone(p) /\ proc[p].ret.op = "beginGame" /\ proc[p].ret.res = "null"
    /\ IsDone(q) /\ proc[q].ret.op = "tallyRound" /\ proc[q].ret.res = "error"
    /\ InPlay /\ game.currentRound >= 2

\* the players a round is played by: the survivors, in a tie-breaker round
\* those of them who tied
InRoundScope(g, q) == ~q.isEliminated /\ (g.isTieBreaker => q.inTieBreaker)

\* C26: in the snapshot that opens a round (the one beginGame writes and every
\* one tallyRound writes with currentRound raised) every player in the round's
\* scope has hasDrawn = false and no current card.
C26_RoundOpensWithEmptyHands ==
  [][\A p \in Procs :
       (proc[p].pc \in {"bg_write", "tr_write"} /\ proc'[p].pc # proc[p].pc) =>
         /\ game' # NoGame
         /\ proc[p].pc = "tr_write" => game'.currentRound = game.currentRound + 1
         /\ \A i \in 1..Len(game'.players) :
              InRoundScope(game', game'.players[i]) =>
                /\ ~game'.players[i].hasDrawn
                /\ game'.players[i].currentCard = NoCard]_vars

\* tallyRound has opened a tie-breaker round in which a survivor who did not
\* tie still holds the card of the round before
C26_Witness ==
  \E p \in Procs :
    /\ IsDone(p) /\ proc[p].ret.op = "tallyRound" /\ proc[p].ret.res = "tie"
    /\ InPlay /\ game.isTieBreaker
    /\ \E i \in 1..Len(game.players) :
         /\ ~game.players[i].isEliminated /\ ~game.players[i].inTieBreaker
         /\ game.players[i].currentCard # NoCard
    /\ \E i \in 1..Len(game.players) :
         /\ game.players[i].inTieBreaker /\ game.players[i].currentCard = NoCard

\* process p makes one attempt of acquireLock on lowcard:joinlock in this step
TriesJoinLock(p) ==
  /\ proc[p].pc \in {"idle", "jg_lock", "bg_lock"}
  /\ proc'[p].pc # proc[p].pc
  /\ \/ proc'[p].op \in {"joinGame", "beginGame"}
     \/ proc'[p].ret.op \in {"joinGame", "beginGame"}

\* C25: acquireLock takes the key only when it is empty and stores a token no
\* other caller holds; while the key is held an attempt gets no token and
\* leaves the key as it is; releaseLock empties the key when it holds the
\* caller's token and leaves it as it is when it holds another.
C25_LockAcquireRelease ==
  [][\A p \in Procs :
       /\ TriesJoinLock(p) =>
            IF lock["joinlock"] = 0
              THEN /\ lock'["joinlock"] # 0
                   /\ proc'[p].tok = lock'["joinlock"]
                   /\ \A q \in Procs \ {p} : proc[q].tok # lock'["joinlock"]
              ELSE /\ lock'["joinlock"] = lock["joinlock"]
                   /\ proc'[p].tok = 0
       /\ (proc[p].pc \in {"jg_unlock", "bg_unlock"} /\ proc'[p].pc # proc[p].pc
             /\ proc[p].tok # 0) =>
            lock'["joinlock"] = IF lock["joinlock"] = proc[p].tok THEN 0 ELSE lock["joinlock"]]_vars

\* a caller is about to release lowcard:joinlock with its own token while the
\* key, expired and taken again, holds the token of another caller
C25_Witness ==
  \E p, q \in Procs :
    /\ p # q
    /\ proc[p].pc \in {"jg_unlock", "bg_unlock"} /\ proc[p].tok # 0
    /\ lock["joinlock"] # 0 /\ lock["joinlock"] # proc[p].tok
    /\ lock["joinlock"] = proc[q].tok

\* C27: every step that ends the room's game (the snapshot is deleted) leaves
\* no timer key behind.
C27_TerminalTransitionClearsTimer ==
  [][(game # NoGame /\ game' = NoGame) => ~timer']_vars

C29_StartLockReleased ==
  \A p \in Procs :
    (IsDone(p) /\ proc[p].ret.op = "startGame") => lock["lock"] # p

\* a startGame call that took the lock has returned from an exception, and
\* the lock key is gone
C29_Witness ==
  \E p \in Procs :
    /\ IsDone(p) /\ proc[p].ret.op = "startGame" /\ proc[p].ret.res = "exception"
    /\ lock["lock"] = 0

\* process p is in startGame and has debited the starter
StartDeducted(p) == proc[p].op = "startGame" /\ proc[p].ded > 0

\* C30: of the startGame calls of a room that overlap, at most one has got past
\* lowcard:lock and debited its starter.
C30_StartLockIsMutex ==
  \A p, q \in Procs : p # q => ~(StartDeducted(p) /\ StartDeducted(q))

\* the indices of the players whose hands tallyRound compares in snapshot g
HandsInScope(g) ==
  {i \in 1..Len(g.players) :
     /\ ~g.players[i].isEliminated
     /\ g.players[i].currentCard # NoCard
     /\ (g.isTieBreaker => g.players[i].inTieBreaker)}

\* the players in scope who hold the lowest card value of snapshot g
HoldersOfLowest(g) ==
  {i \in HandsInScope(g) :
     \A j \in HandsInScope(g) : g.players[i].currentCard.value <= g.players[j].currentCard.value}

\* the indices of the players of snapshot g who are not eliminated
Survivors(g) == {i \in 1..Len(g.players) : ~g.players[i].isEliminated}

\* process p takes the step in which tallyRound reads the snapshot
TallyReads(p) ==
  /\ IsIdle(p)
  /\ proc'[p].op = "tallyRound" \/ proc'[p].ret.op = "tallyRound"

\* C31: when tallyRound finds exactly one player in scope with the lowest card
\* value, it marks that player and nobody else eliminated, clears isTieBreaker
\* and every inTieBreaker flag, and goes on to finishGame exactly when fewer
\* than two players are left; otherwise the round number goes up by one.  The
\* card of the player put out is no higher than any other card in scope.
C31_SingleLowestEliminated ==
  [][\A p \in Procs :
       (TallyReads(p) /\ game # NoGame /\ Cardinality(HoldersOfLowest(game)) = 1) =>
         LET loser == CHOOSE i \in HoldersOfLowest(game) : TRUE
             g1 == proc'[p].g
         IN /\ proc'[p].pc \in {"fg_pay", "tr_write"}
            /\ proc'[p].user = game.players[loser].userId
            /\ Len(g1.players) = Len(game.players)
            /\ \A i \in 1..Len(game.players) :
                 /\ g1.players[i].userId = game.players[i].userId
                 /\ g1.players[i].isEliminated = (game.players[i].isEliminated \/ i = loser)
                 /\ ~g1.players[i].inTieBreaker
            /\ ~g1.isTieBreaker
            /\ (proc'[p].pc = "fg_pay") <=> (Cardinality(Survivors(g1)) < 2)
            /\ proc'[p].pc = "tr_write" => g1.currentRound = game.currentRound + 1
            /\ \A j \in HandsInScope(game) :
                 game.players[loser].currentCard.value <= game.players[j].currentCard.value]_vars

\* a tally has put out the loser of a tie-breaker round and opened the next
\* round for the two players left, the tie state cleared
C31_Witness ==
  \E p \in Procs :
    /\ IsDone(p) /\ proc[p].ret.op = "tallyRound" /\ proc[p].ret.res = "eliminated"
    /\ proc[p].ret.g.isTieBreaker
    /\ InPlay /\ ~game.isTieBreaker
    /\ game.currentRound = proc[p].ret.g.currentRound + 1
    /\ Cardinality(Survivors(game)) = 2

\* C32: when tallyRound finds two or more players in scope with the lowest card
\* value, nobody is eliminated, isTieBreaker and wasTieBreaker are set, the
\* round number goes up by one, inTieBreaker is set for exactly the tied players
\* among the survivors and hasDrawn/currentCard are reset for the tied players
\* only; and while the round is a tie-breaker, only a player flagged inTieBreaker
\* gets a card or is eliminated.
C32_TieOpensTieBreaker ==
  [][\A p \in Procs :
       /\ (TallyReads(p) /\ game # NoGame /\ Cardinality(HoldersOfLowest(game)) >= 2) =>
            LET tied == HoldersOfLowest(game)
                g1 == proc'[p].g
            IN /\ proc'[p].pc = "tr_write"
               /\ proc'[p].ret.res = "tie"
               /\ Len(g1.players) = Len(game.players)
               /\ g1.isTieBreaker /\ g1.wasTieBreaker
               /\ g1.currentRound = game.currentRound + 1
               /\ \A i \in 1..Len(game.players) :
                    /\ g1.players[i].userId = game.players[i].userId
                    /\ g1.players[i].isEliminated = game.players[i].isEliminated
                    /\ ~game.players[i].isEliminated => (g1.players[i].inTieBreaker <=> i \in tied)
                    /\ i \in tied => ~g1.players[i].hasDrawn /\ g1.players[i].currentCard = NoCard
                    /\ i \notin tied =>
                         /\ g1.players[i].hasDrawn = game.players[i].hasDrawn
                         /\ g1.players[i].currentCard = game.players[i].currentCard
       /\ (proc[p].pc = "tr_write" /\ proc'[p].pc # proc[p].pc) => game' = proc[p].g
       /\ (TallyReads(p) /\ game # NoGame /\ game.isTieBreaker
             /\ proc'[p].pc \in {"fg_pay", "tr_write"}) =>
            \A i \in 1..Len(game.players) :
              (proc'[p].g.players[i].isEliminated /\ ~game.players[i].isEliminated)
                => game.players[i].inTieBreaker
       /\ (game # NoGame /\ game' # NoGame /\ game.isTieBreaker
             /\ game'.currentRound = game.currentRound /\ game'.createdAt = game.createdAt) =>
            \A i \in 1..Len(game.players) :
              game'.players[i].currentCard # game.players[i].currentCard
                => game.players[i].inTieBreaker /\ ~game.players[i].isEliminated]_vars

\* in a tie-breaker round a tied player has drawn and the draw of a survivor
\* who did not tie has been turned away
C32_Witness ==
  \E p \in Procs :
    /\ IsDone(p) /\ proc[p].ret.op = "drawCardForPlayer" /\ proc[p].ret.res = "not_tied"
    /\ InPlay /\ game.isTieBreaker
    /\ \E i \in 1..Len(game.players) :
         /\ game.players[i].inTieBreaker /\ game.players[i].hasDrawn
         /\ game.players[i].currentCard # NoCard
    /\ \E i \in 1..Len(game.players) :
         /\ game.players[i].userId = proc[p].ret.user
         /\ ~game.players[i].isEliminated /\ ~game.players[i].inTieBreaker

\* the pots a game of the room can hold
Pots == 1..(NumUsers * EntryFee)

\* C33: finishGame computes houseFee = floor(pot * 10 / 100) and winnings =
\* pot - houseFee, so that houseFee + winnings = pot and 0 <= houseFee <=
\* winnings for every positive pot; it credits the winnings to the one player
\* who is not eliminated and to nobody else; and when it has returned the room
\* has no game, deck, timer or lock key.
C33_FinishPaysWinnerAndCleans ==
  [][/\ \A pot \in Pots :
          /\ HouseFee(pot) = (pot * 10) \div 100
          /\ HouseFee(pot) + Winnings(pot) = pot
          /\ 0 <= HouseFee(pot) /\ HouseFee(pot) <= Winnings(pot)
     /\ \A p \in Procs :
          /\ (proc[p].pc = "fg_pay" /\ proc'[p].pc # proc[p].pc) =>
               LET g == proc[p].g
                   fee == (g.pot * 10) \div 100
               IN /\ Cardinality(Survivors(g)) = 1
                  /\ \A i \in Survivors(g) :
                       /\ credits' = [credits EXCEPT ![g.players[i].userId] = @ + (g.pot - fee)]
                       /\ proc'[p].ret.winner = g.players[i].userId
                  /\ tagged' = tagged
                  /\ proc'[p].ret.houseFee = fee
                  /\ proc'[p].ret.winnings = g.pot - fee
                  /\ proc'[p].pc = "fg_cleanup"
          /\ (proc[p].pc = "fg_cleanup" /\ proc'[p].pc # proc[p].pc) =>
               /\ IsDone(p)' /\ proc'[p].ret.res = "gameOver"
               /\ game' = NoGame
               /\ deck' = NoDeck
               /\ ~timer'
               /\ \A k \in LockKeys : lock'[k] = 0]_vars

\* a game of three players is over: the fee of its pot was rounded down, the
\* winner holds the winnings, and the keys of the room are gone, among them
\* the draw lock that a draw command under way had taken
C33_Witness ==
  \E p, q \in Procs :
    /\ IsDone(p) /\ proc[p].ret.res = "gameOver"
    /\ proc[p].ret.g.pot = 3 * EntryFee
    /\ proc[p].ret.houseFee * 100 < proc[p].ret.g.pot * HOUSE_FEE_PERCENT
    /\ credits[proc[p].ret.winner] = InitCredits - EntryFee + proc[p].ret.winnings
    /\ proc[q].pc = "dc_read" /\ proc[q].tok = q
    /\ game = NoGame /\ ~deck.exists /\ ~timer /\ \A k \in LockKeys : lock[k] = 0

\* the draw command of user u is to be turned away on snapshot g at time t
DrawIsRejected(g, u, t) ==
  \/ g = NoGame
  \/ g.status # "playing"
  \/ g.countdownEndsAt # NoTime /\ t < g.countdownEndsAt
  \/ ~\E i \in 1..Len(g.players) : g.players[i].userId = u /\ ~g.players[i].isEliminated
  \/ \E i \in 1..Len(g.players) :
       /\ g.players[i].userId = u /\ ~g.players[i].isEliminated
       /\ \/ g.isTieBreaker /\ ~g.players[i].inTieBreaker
          \/ g.players[i].hasDrawn

\* C34: a draw command that is turned away (the game is not in play, the
\* countdown is not over, the caller is not a surviving player, the round is a
\* tie-breaker and the caller did not tie, or the caller has drawn) pops no
\* card and does not write the snapshot; a draw that is accepted pops exactly
\* one card from the deck and sets the currentCard and hasDrawn of that player
\* and nothing else in the snapshot.
C34_RejectedDrawChangesNothing ==
  [][\A p \in Procs :
       /\ (proc[p].pc = "dc_read" /\ proc'[p].pc # proc[p].pc) =>
            IF DrawIsRejected(game, proc[p].user, now)
              THEN proc'[p].pc = "dc_unlock" /\ proc'[p].ret.res \notin {"", "ok"}
              ELSE proc'[p].pc = "dc_draw"
       /\ (proc'[p].pc # proc[p].pc /\ proc[p].pc \in {"idle", "dc_lock", "dc_read", "dc_unlock"}
             /\ (proc'[p].op = "drawCardForPlayer" \/ proc'[p].ret.op = "drawCardForPlayer")) =>
            game' = game /\ deck' = deck
       /\ (proc[p].pc = "dc_draw" /\ proc'[p].pc # proc[p].pc) =>
            LET from == IF deck.exists /\ deck.cards # {} THEN deck.cards ELSE Cards
            IN /\ proc'[p].card \in from
               /\ deck'.exists /\ deck'.cards = from \ {proc'[p].card}
               /\ game' = game
               /\ proc'[p].pc = "dc_write"
       /\ (proc[p].pc = "dc_write" /\ proc'[p].pc # proc[p].pc) =>
            /\ deck' = deck
            /\ game # NoGame /\ game' # NoGame
            /\ \E i \in 1..Len(game.players) :
                 /\ game.players[i].userId = proc[p].user
                 /\ game' = [game EXCEPT !.players[i] =
                               [@ EXCEPT !.currentCard = proc[p].card, !.hasDrawn = TRUE]]
            /\ proc'[p].ret.res = "ok"
       /\ (proc[p].pc # "done" /\ IsDone(p)' /\ proc'[p].ret.op = "drawCardForPlayer"
             /\ proc'[p].ret.res = "ok") => proc[p].pc = "dc_unlock"]_vars

\* a player who holds a card of the round has asked for another and was turned
\* away, the card and the deck left as they were
C34_Witness ==
  \E p \in Procs :
    /\ IsDone(p) /\ proc[p].ret.op = "drawCardForPlayer" /\ proc[p].ret.res = "already_drew"
    /\ InPlay /\ deck.exists /\ deck.cards # {}
    /\ \E i \in 1..Len(game.players) :
         /\ game.players[i].userId = proc[p].ret.user
         /\ game.players[i].hasDrawn /\ game.players[i].currentCard # NoCard

\* C35: cancel and join lose no money.  Once a cancelByStarter (or stopGame)
\* and the joinGame calls that overlapped it have returned, either the game
\* exists and every user whose entry is still deducted is one of its players,
\* or there is no snapshot and every entry deducted has been given back, once.
C35_CancelAndJoinLoseNoMoney ==
  Quiet =>
    \/ game # NoGame /\ \A u \in Users : stake[u] # 0 => (stake[u] > 0 /\ u \in PlayerIds(game))
    \/ game = NoGame /\ \A u \in Users : stake[u] = 0

\* process q has credited the winnings of the room's game
HasPaidWinner(q) ==
  \/ proc[q].pc = "fg_cleanup" /\ proc[q].ret.winner # 0
  \/ IsDone(q) /\ proc[q].ret.res = "gameOver" /\ proc[q].ret.winner # 0

\* C36: the winner is paid at most once per game.  Whatever the interleaving
\* of the tallyRound calls of a room, finishGame credits the winnings of a game
\* only if no other call has credited them.
C36_WinnerPaidOnce ==
  [][\A p \in Procs :
       (proc[p].pc = "fg_pay" /\ proc'[p].pc # proc[p].pc /\ credits' # credits) =>
         \A q \in Procs \ {p} : ~HasPaidWinner(q)]_vars

\* C37: within a round no draw is lost.  Whatever the interleaving of the draw
\* commands with autoDrawForTimeout, a card that the snapshot records for a
\* player stays that player's card as long as the round lasts: no write of the
\* snapshot replaces it or takes it away.
C37_DrawNeverLost ==
  [][(game # NoGame /\ game' # NoGame /\ game'.currentRound = game.currentRound
        /\ game'.status = game.status) =>
       \A i \in 1..Len(game.players) :
         game.players[i].currentCard # NoCard =>
           game'.players[i].currentCard = game.players[i].currentCard]_vars

\* C38: whenever no ledger operation is under way, a cached balance
\* credits:{userId} that is present equals the user's durable credits,
\* whatever the interleaving of the deductCredits and addCredits calls before.
C38_CacheMatchesLedger ==
  Quiet => \A u \in Users : cache[u] # NoCache => cache[u] = credits[u]

\* the number of players of a snapshot who are still in the game
ActiveCount(g) == Len(RemainingPlayers(g))

IsOut(g, u) ==
  \E i \in 1..Len(g.players) : g.players[i].userId = u /\ g.players[i].isEliminated

\* C39: elimination is permanent while a game is playing.  From one stored
\* snapshot of a playing game to the next the players are the same, a player
\* who is eliminated stays eliminated, and the number of players still in the
\* game never grows and never falls below two; a draw by an eliminated player
\* is rejected and no card is written for a player the snapshot has
\* eliminated; a tally that eliminates takes the count down by exactly one and
\* a tie leaves it alone; tallyRound finishes the game exactly when one player
\* is left.
C39_EliminationPermanent ==
  [][/\ (InPlay /\ InPlay') =>
          /\ Len(game'.players) = Len(game.players)
          /\ \A i \in 1..Len(game.players) :
               /\ game'.players[i].userId = game.players[i].userId
               /\ game.players[i].isEliminated => game'.players[i].isEliminated
          /\ ActiveCount(game') <= ActiveCount(game)
          /\ ActiveCount(game') >= 2
     /\ \A p \in Procs :
          /\ (proc[p].pc = "dc_read" /\ proc'[p].pc # proc[p].pc /\ InPlay
                /\ IsOut(game, proc[p].user)) =>
               proc'[p].pc = "dc_unlock" /\ proc'[p].ret.res \notin {"", "ok"}
          /\ (proc[p].pc = "dc_write" /\ proc'[p].pc # proc[p].pc /\ InPlay) =>
               ~IsOut(game, proc[p].user)
          /\ (proc[p].pc = "tr_write" /\ proc'[p].pc # proc[p].pc /\ InPlay) =>
               IF proc[p].ret.res = "eliminated"
                 THEN ActiveCount(game') = ActiveCount(game) - 1
                 ELSE ActiveCount(game') = ActiveCount(game)
          /\ (proc[p].pc = "idle" /\ proc'[p].op = "tallyRound") =>
               /\ proc'[p].pc = "fg_pay" => ActiveCount(proc'[p].g) = 1
               /\ proc'[p].pc = "tr_write" => ActiveCount(proc'[p].g) >= 2]_vars

\* the commands of a sequence
Range(s) == {s[i] : i \in 1..Len(s)}

NoRepeat(s) == \A i, j \in 1..Len(s) : s[i] = s[j] => i = j

\* C40: the per-room serializer loses no command.  When every awaited handler
\* settles, by resolving or by rejecting, every command that arrives for a room
\* is in the end handed to the handler, and no command is handed over twice or
\* without having arrived.
C40_NoCommandLost ==
  /\ [](\A r \in Rooms : NoRepeat(handled[r]) /\ Range(handled[r]) \subseteq Range(arrived[r]))
  /\ \A r \in Rooms : \A c \in 1..MaxCommands :
       (c \in Range(arrived[r])) ~> (c \in Range(handled[r]))

\* three commands of one room all handed over and settled, the queue object
\* removed: the second and the third each came while a handler was awaited or
\* after the queue had been emptied and removed
C40_Witness ==
  \E r \in Rooms :
    /\ Len(arrived[r]) >= 3
    /\ handled[r] = arrived[r]
    /\ awaited[r] = {}
    /\ ~roomQueues[r].present

====
